---- MODULE Spec2Model ----
(***************************************************************************)
(* Model of the OpenFAN Micro integration: the HTTP device client          *)
(* (api.py) and the polling coordinator (coordinator.py).                  *)
(*                                                                         *)
(* Every HTTP request is one step (the coroutines suspend at each          *)
(* request), so a write call and a poll may interleave request by request. *)
(***************************************************************************)
EXTENDS Integers, Sequences, FiniteSets, TLC

\* ------------------------------------------------------------------ bounds
\* consecutive failed polls explored
MaxFailures == 4
\* consecutive stalled polls explored per fan
MaxStall == 3
\* steps of the clock of the temperature controller
MaxTicks == 1
\* samples in the window of the temperature controller
MaxSamples == 2
\* points of an evaluated curve
MaxPoints == 4

\* ------------------------------------------------------- program constants
\* api.py:115  indices outside 0..9 are dropped from a multi-fan payload
MaxFanIndex == 9
\* api.py:58 / api.py:180  first HTTP status that counts as an error
HttpErrorFrom == 400
\* api.py:31 default of _fan_count
DefaultFanCount == 1
\* coordinator.py:99 fallback of the failure threshold ("or 3")
DefaultFailureThreshold == 3
\* coordinator.py:53 fallback of the stall threshold ("or 3")
DefaultStallConsecutive == 3

\* the fans of the modelled device (the firmware allows indices 0..9)
Indices == {0, 1}

\* ------------------------------------------------------------ text helpers
\* Characters are one-character strings, a text is a sequence of them.
LowerLetters == <<"o", "k", "s", "u", "c", "e", "r", "n", "t", "f", "a", "l", "y">>
UpperLetters == <<"O", "K", "S", "U", "C", "E", "R", "N", "T", "F", "A", "L", "Y">>

\* str.lower() on one character
LowerChar(c) ==
  IF \E i \in 1..Len(UpperLetters) : UpperLetters[i] = c
  THEN LowerLetters[CHOOSE i \in 1..Len(UpperLetters) : UpperLetters[i] = c]
  ELSE c

\* str.upper() on one character
UpperChar(c) ==
  IF \E i \in 1..Len(LowerLetters) : LowerLetters[i] = c
  THEN UpperLetters[CHOOSE i \in 1..Len(LowerLetters) : LowerLetters[i] = c]
  ELSE c

Lower(s) == [i \in 1..Len(s) |-> LowerChar(s[i])]
Upper(s) == [i \in 1..Len(s) |-> UpperChar(s[i])]

IsSpace(c) == c \in {" ", "\n", "\t"}

RECURSIVE LStrip(_)
LStrip(s) == IF s # <<>> /\ IsSpace(Head(s)) THEN LStrip(Tail(s)) ELSE s

RECURSIVE RStrip(_)
RStrip(s) ==
  IF s # <<>> /\ IsSpace(s[Len(s)]) THEN RStrip(SubSeq(s, 1, Len(s) - 1)) ELSE s

\* str.strip()
Strip(s) == RStrip(LStrip(s))

\* ------------------------------------------------------------- JSON values
JNum(n) == [t |-> "num", n |-> n, s |-> <<>>]
JStr(s) == [t |-> "str", n |-> 0, s |-> s]
JNull == [t |-> "null", n |-> 0, s |-> <<>>]
JBool(b) == [t |-> "bool", n |-> IF b THEN 1 ELSE 0, s |-> <<>>]

Digits == <<"0", "1", "2", "3", "4", "5", "6", "7", "8", "9">>
IsDigit(c) == \E i \in 1..10 : Digits[i] = c
DigitVal(c) == (CHOOSE i \in 1..10 : Digits[i] = c) - 1

RECURSIVE DigitsVal(_)
DigitsVal(s) ==
  IF s = <<>> THEN 0 ELSE 10 * DigitsVal(SubSeq(s, 1, Len(s) - 1)) + DigitVal(s[Len(s)])

\* str(value) as Python renders it (numbers: one decimal digit suffices here)
PyStr(v) ==
  CASE v.t = "str" -> v.s
    [] v.t = "null" -> <<"N", "o", "n", "e">>
    [] v.t = "bool" -> IF v.n = 1 THEN <<"T", "r", "u", "e">> ELSE <<"F", "a", "l", "s", "e">>
    [] v.t = "num" /\ v.n \in 0..9 -> <<Digits[v.n + 1]>>
    [] OTHER -> <<"#">>

\* int(float(raw)) guarded by "except: 0": numbers and digit strings
\* convert, anything else (null, junk text) becomes 0
ToIntOrZero(v) ==
  CASE v.t = "num" -> v.n
    [] v.t = "bool" -> v.n
    [] v.t = "str" /\ Strip(v.s) # <<>> /\ \A i \in 1..Len(Strip(v.s)) : IsDigit(Strip(v.s)[i])
         -> DigitsVal(Strip(v.s))
    [] OTHER -> 0

\* dict.get(key, default) on a Python dict modelled as a function
Get(d, k, default) == IF k \in DOMAIN d THEN d[k] ELSE default

Max(a, b) == IF a >= b THEN a ELSE b
Min(a, b) == IF a <= b THEN a ELSE b
Clamp100(v) == Max(0, Min(100, v))

EmptyDict == [k \in {} |-> 0]

\* d[k] = v on a Python dict
Put(d, k, v) == [x \in (DOMAIN d) \cup {k} |-> IF x = k THEN v ELSE d[x]]

\* ------------------------------------------------------- HTTP responses
\* A request either times out (asyncio.timeout(6) / connection error) or
\* answers with a status and a body.  A body is plain text, a JSON object
\* (obj, with an optional nested "data" object) or some other JSON value.
TextBody(s) ==
  [form |-> "text", text |-> s, obj |-> EmptyDict, hasdata |-> FALSE, data |-> EmptyDict]
JsonBody(s) ==
  [form |-> "json", text |-> s, obj |-> EmptyDict, hasdata |-> FALSE, data |-> EmptyDict]
ObjBody(o) ==
  [form |-> "object", text |-> <<"{", "}">>, obj |-> o, hasdata |-> FALSE, data |-> EmptyDict]
NestedBody(o, d) ==
  [form |-> "object", text |-> <<"{", "}">>, obj |-> o, hasdata |-> TRUE, data |-> d]

Timeout == [kind |-> "timeout", status |-> 0, body |-> TextBody(<<>>)]
Http(status, body) == [kind |-> "http", status |-> status, body |-> body]

\* exceptions: what was raised and for which path
NoExc == [kind |-> "none", path |-> "", status |-> 0]
Exc(kind, path, status) == [kind |-> kind, path |-> path, status |-> status]

OkStatusWords == {<<"o", "k">>, <<"s", "u", "c", "c", "e", "s", "s">>, <<>>}
OkTextWords == {<<"O", "K">>, <<"S", "U", "C", "C", "E", "S", "S">>, <<>>}

\* variant: the text is compared without trimming
IsOkPayloadNoStrip(body) ==
  IF body.form = "object"
     /\ Lower(PyStr(Get(body.obj, "status", JStr(<<>>)))) \in OkStatusWords
  THEN TRUE
  ELSE Upper(body.text) \in OkTextWords

\* OpenFanApi._is_ok_payload(payload, text); payload is the parsed body,
\* a dict only when the body is a JSON object
IsOkPayload(body) ==
  IF body.form = "object"
     /\ Lower(PyStr(Get(body.obj, "status", JStr(<<>>)))) \in OkStatusWords
  THEN TRUE
  ELSE Upper(Strip(body.text)) \in OkTextWords

\* the test every write applies to a response of _get_any:
\* "status < 400 and self._is_ok_payload(data, text)"
IsWriteOk(r) ==
  r.kind = "http" /\ r.status < HttpErrorFrom /\ IsOkPayload(r.body)

\* OpenFanApi._get_json: the exception it raises for a response, NoExc when
\* it returns the JSON object
GetJsonExc(path, r) ==
  CASE r.kind = "timeout" -> Exc("timeout", path, 0)
    [] r.kind = "http" /\ r.status >= HttpErrorFrom -> Exc("http", path, r.status)
    [] r.kind = "http" /\ r.status < HttpErrorFrom /\ r.body.form # "object"
         -> Exc("nonjson", path, r.status)
    [] OTHER -> NoExc

\* int(raw_index) on a key of a JSON object; keys that are not integers
\* raise and are skipped
IntKeys == {"0", "1", "2", "12"}
KeyToInt(k) == CASE k = "0" -> 0 [] k = "1" -> 1 [] k = "2" -> 2 [] k = "12" -> 12

\* OpenFanApi._parse_multi_fan_payload: {index: rpm}
ParseMultiFanPayload(body) ==
  LET container == IF body.hasdata THEN body.data ELSE body.obj
      keys == {k \in DOMAIN container :
                 k \in IntKeys /\ KeyToInt(k) >= 0 /\ KeyToInt(k) <= MaxFanIndex}
  IN [i \in {KeyToInt(k) : k \in keys} |->
        Max(0, ToIntOrZero(container[CHOOSE k \in keys : KeyToInt(k) = i]))]

\* OpenFanApi._parse_status_payload: <<rpm, pwm>>
ParseStatusPayload(body) ==
  LET top == body.obj
      container ==
        IF "rpm" \in DOMAIN top \/ "pwm_percent" \in DOMAIN top \/ "pwm" \in DOMAIN top
        THEN top
        ELSE IF body.hasdata THEN body.data ELSE EmptyDict
      rpm_raw == Get(container, "rpm", JNum(0))
      pwm_raw == Get(container, "pwm_percent",
                       Get(container, "pwm", Get(container, "pwm_value", JNum(0))))
  IN <<Max(0, ToIntOrZero(rpm_raw)), Clamp100(ToIntOrZero(pwm_raw))>>


\* --------------------------------------------------------- request paths
StatusPaths == <<"/api/v0/fan/status", "/api/v0/fan/0/status">>
PwmPaths == <<"/api/v0/fan/{idx}/pwm", "/api/v0/fan/{idx}/set", "/api/v0/fan/set">>
PwmAllPath == "/api/v0/fan/all/set"
RpmPath == "/api/v0/fan/{idx}/rpm"
OpenFanStatusPath == "/api/v0/openfan/status"

\* "int(x or d)": a falsy option falls back to the default
OrDefault(x, d) == IF x = 0 THEN d ELSE x

SetMax(S) == CHOOSE m \in S : \A x \in S : x <= m

\* variant: the count is overwritten by the latest discovery
RememberFanCountLatest(fc, n) == n

\* "self._fan_count = max(self._fan_count, n)"
RememberFanCount(fc, n) == Max(fc, n)

\* ------------------------------------------------ OpenFanApi.get_status_all
\* One pass of the loop over the two status paths: the exception caught
\* (NoExc when the pass returns), the {index: rpm} returned and the client
\* state after the pass.
StatusAttempt(step, r, fc, cache) ==
  LET exc == GetJsonExc(StatusPaths[step], r)
      multi == ParseMultiFanPayload(r.body)
      single == ParseStatusPayload(r.body)
  IN IF exc # NoExc
     THEN [exc |-> exc, rpm_by_index |-> EmptyDict, fan_count |-> fc, cache |-> cache]
     ELSE IF step = 1 /\ DOMAIN multi # {}
     THEN [exc |-> NoExc, rpm_by_index |-> multi,
           fan_count |-> RememberFanCount(fc, SetMax(DOMAIN multi) + 1), cache |-> cache]
     ELSE [exc |-> NoExc, rpm_by_index |-> (0 :> single[1]),
           fan_count |-> RememberFanCount(fc, 1), cache |-> Put(cache, 0, single[2])]

\* variant: when both passes fail the first exception is raised
StatusLoopFirstExc(step, rs, fc, cache) ==
  LET a1 == StatusAttempt(1, rs[1], fc, cache)
      a2 == StatusAttempt(2, rs[2], fc, cache)
  IN IF a1.exc = NoExc
     THEN [ok |-> TRUE, exc |-> NoExc, rpm_by_index |-> a1.rpm_by_index,
           fan_count |-> a1.fan_count, cache |-> a1.cache, nreq |-> 1]
     ELSE [ok |-> a2.exc = NoExc, exc |-> IF a2.exc = NoExc THEN NoExc ELSE a1.exc,
           rpm_by_index |-> a2.rpm_by_index, fan_count |-> a2.fan_count,
           cache |-> a2.cache, nreq |-> 2]

\* The loop from pass `step` on, rs[k] being the device's answer to the k-th
\* path: the outcome of get_status_all and the number of requests it issued.
\* A failing pass changes nothing but last_exc, so the whole call takes
\* effect at its last response.
RECURSIVE StatusLoop(_, _, _, _)
StatusLoop(step, rs, fc, cache) ==
  LET a == StatusAttempt(step, rs[step], fc, cache)
  IN IF a.exc = NoExc \/ step = Len(StatusPaths)
     THEN [ok |-> a.exc = NoExc, exc |-> a.exc, rpm_by_index |-> a.rpm_by_index,
           fan_count |-> a.fan_count, cache |-> a.cache, nreq |-> step]
     ELSE StatusLoop(step + 1, rs, fc, cache)

GetStatusAllOutcome(rs, fc, cache) == StatusLoop(1, rs, fc, cache)

TrueWords == {<<"t", "r", "u", "e">>, <<"1">>, <<"y", "e", "s">>, <<"o", "n">>}
FalseWord == JStr(<<"f", "a", "l", "s", "e">>)

\* OpenFanApi.get_openfan_status: the exception raised or (led, is_12v)
GetOpenFanStatus(r) ==
  LET exc == GetJsonExc(OpenFanStatusPath, r)
      container == IF r.body.hasdata THEN r.body.data ELSE r.body.obj
      led_raw == Lower(Strip(PyStr(Get(container, "act_led_enabled", FalseWord))))
      v12_raw == Lower(Strip(PyStr(Get(container, "fan_is_12v", FalseWord))))
  IN IF exc # NoExc
     THEN [exc |-> exc, led |-> FALSE, is_12v |-> FALSE]
     ELSE [exc |-> NoExc, led |-> led_raw \in TrueWords, is_12v |-> v12_raw \in TrueWords]

\* ------------------------------------------------ OpenFanApi.set_pwm_index
\* variant: only the upper limit is applied
ClampPercentUpper(v) == Min(100, v)

\* line 170: the percentage that is sent and cached
ClampPercent(v) == Max(0, Min(100, v))

\* variant: the value is recorded for every known fan
CacheAfterWriteAll(cache, idx, value) == [i \in (DOMAIN cache) \cup {idx} |-> value]

\* line 181: "self._last_pwm_by_index[idx] = value"
CacheAfterWrite(cache, idx, value) == Put(cache, idx, value)

\* the exception one pass of a write catches or raises for response r
WriteExc(path, r) ==
  IF r.kind = "timeout" THEN Exc("timeout", path, 0) ELSE Exc("bad", path, r.status)

\* variant: the first failing endpoint ends the call
PwmLoopNoFallback(step, rs) ==
  IF IsWriteOk(rs[step])
  THEN [ok |-> TRUE, exc |-> NoExc, nreq |-> step]
  ELSE [ok |-> FALSE, exc |-> WriteExc(PwmPaths[step], rs[step]), nreq |-> step]

\* The loop over the three paths from pass `step` on: whether the call
\* returned, the exception it raised otherwise, and the requests it issued.
RECURSIVE PwmLoop(_, _)
PwmLoop(step, rs) ==
  IF IsWriteOk(rs[step])
  THEN [ok |-> TRUE, exc |-> NoExc, nreq |-> step]
  ELSE IF step = Len(PwmPaths)
  THEN [ok |-> FALSE, exc |-> WriteExc(PwmPaths[step], rs[step]), nreq |-> step]
  ELSE PwmLoop(step + 1, rs)

SetPwmIndexOutcome(rs) == PwmLoop(1, rs)

\* ------------------------------------------- temp_controller.parse_curve
\* Optional values: <<>> is None, <<v>> is the value v
NoneVal == <<>>
Some(v) == <<v>>

\* str.split(sep): the parts of s between the occurrences of sep
RECURSIVE SplitOn(_, _)
SplitOn(s, sep) ==
  IF \A i \in 1..Len(s) : s[i] # sep
  THEN <<s>>
  ELSE LET k == CHOOSE i \in 1..Len(s) : s[i] = sep /\ \A j \in 1..(i - 1) : s[j] # sep
       IN <<SubSeq(s, 1, k - 1)>> \o SplitOn(SubSeq(s, k + 1, Len(s)), sep)

\* part.split("=", 1): the text before and after the first "="
SplitFirst(s, sep) ==
  LET k == CHOOSE i \in 1..Len(s) : s[i] = sep /\ \A j \in 1..(i - 1) : s[j] # sep
  IN <<SubSeq(s, 1, k - 1), SubSeq(s, k + 1, Len(s))>>

\* the texts int() converts: an optional sign and digits, with blanks
\* around them
IsIntText(s) ==
  LET t == Strip(s)
      d == IF t # <<>> /\ Head(t) \in {"+", "-"} THEN Tail(t) ELSE t
  IN d # <<>> /\ \A i \in 1..Len(d) : IsDigit(d[i])

IntVal(s) ==
  LET t == Strip(s)
  IN IF Head(t) = "-" THEN 0 - DigitsVal(Tail(t))
     ELSE IF Head(t) = "+" THEN DigitsVal(Tail(t))
     ELSE DigitsVal(t)

\* float() on the temperature texts of the curves and sensor states used
\* here: whole degrees.  Texts with a fraction or an exponent are not among
\* them; every other text raises.
IsFloatText(s) == IsIntText(s)
FloatVal(s) == IntVal(s)

\* lines 43-48: the point of one "t=pct" part, none when the part has no
\* "=" or a side does not convert
ParsePoint(part) ==
  IF \A i \in 1..Len(part) : part[i] # "="
  THEN <<>>
  ELSE LET sides == SplitFirst(part, "=")
           t == Strip(sides[1])
           pct == Strip(sides[2])
       IN IF IsFloatText(t) /\ IsIntText(pct)
          THEN <<<<FloatVal(t), Max(0, Min(100, IntVal(pct)))>>>>
          ELSE <<>>

\* variant: the points keep the order of the text
SortByTempKeepOrder(pts) == pts

\* line 49: "pts.sort(key=lambda x: x[0])", a stable sort by temperature
RECURSIVE SortByTemp(_)
SortByTemp(pts) ==
  IF pts = <<>> THEN <<>>
  ELSE LET rest == SortByTemp(SubSeq(pts, 1, Len(pts) - 1))
           pt == pts[Len(pts)]
           k == Cardinality({i \in 1..Len(rest) : rest[i][1] <= pt[1]})
       IN SubSeq(rest, 1, k) \o <<pt>> \o SubSeq(rest, k + 1, Len(rest))

RECURSIVE ParseParts(_)
ParseParts(parts) ==
  IF parts = <<>> THEN <<>>
  ELSE (IF Strip(Head(parts)) = <<>> THEN <<>> ELSE ParsePoint(Strip(Head(parts))))
         \o ParseParts(Tail(parts))

\* parse_curve(txt): the points <<temperature, pwm>> of the text
parse_curve(txt) == SortByTemp(ParseParts(SplitOn(txt, ",")))

\* ---------------------------------- FanTempController.apply, lines 226-244
\* A temperature is the average of the samples in the window, kept exact
\* as the fraction sum / count in lowest terms; the code computes the
\* quotient in floating point.
RECURSIVE Gcd(_, _)
Gcd(a, b) == IF b = 0 THEN a ELSE Gcd(b, a % b)
Temp(num, den) ==
  LET g == Gcd(IF num < 0 THEN 0 - num ELSE num, den)
  IN [num |-> num \div g, den |-> den \div g]
TempLe(temp, t) == temp.num <= t * temp.den
TempGe(temp, t) == temp.num >= t * temp.den

\* int(round(n / d)) for d > 0: Python rounds a tie to the even neighbour
RoundHalfEven(n, d) ==
  LET q == n \div d
      r == n % d
  IN IF 2 * r < d THEN q
     ELSE IF 2 * r > d THEN q + 1
     ELSE IF q % 2 = 0 THEN q ELSE q + 1

\* variant: the ratio is taken from the upper point
InterpolateFromUpper(p1, p2, t1, t2, temp) ==
  RoundHalfEven(p1 * (t2 - t1) * temp.den + (p2 - p1) * (t2 * temp.den - temp.num),
                (t2 - t1) * temp.den)

\* lines 238-239: "ratio = (temp - t1) / (t2 - t1)",
\* "int(round(p1 + (p2 - p1) * ratio))"
Interpolate(p1, p2, t1, t2, temp) ==
  RoundHalfEven(p1 * (t2 - t1) * temp.den + (p2 - p1) * (temp.num - t1 * temp.den),
                (t2 - t1) * temp.den)

\* variant: every temperature below the last point gets the first pwm
CurveTargetStep(pts, temp) ==
  IF TempGe(temp, pts[Len(pts)][1]) THEN pts[Len(pts)][2] ELSE pts[1][2]

\* lines 227-240: the pwm of the curve at temp (pts is not empty)
CurveTarget(pts, temp) ==
  IF TempLe(temp, pts[1][1]) THEN pts[1][2]
  ELSE IF TempGe(temp, pts[Len(pts)][1]) THEN pts[Len(pts)][2]
  ELSE LET hits == {i \in 1..(Len(pts) - 1) :
                      TempGe(temp, pts[i][1]) /\ TempLe(temp, pts[i + 1][1])}
       IN IF hits = {} THEN pts[1][2]
          ELSE LET i == CHOOSE h \in hits : \A g \in hits : h <= g
                   t1 == pts[i][1]
                   p1 == pts[i][2]
                   t2 == pts[i + 1][1]
                   p2 == pts[i + 1][2]
               IN IF t2 = t1 THEN Max(p1, p2) ELSE Interpolate(p1, p2, t1, t2, temp)

\* variant: a target of 0 is raised to the minimum too
FloorToMinAlways(target, minp) == Max(0, Min(100, Max(minp, target)))

\* lines 243-244: 0 stays 0, any other target is raised to min_pwm, and the
\* result is kept within 0..100
FloorToMin(target, minp) ==
  Max(0, Min(100, IF target = 0 THEN 0 ELSE Max(minp, target)))

\* --------------------------------------- FanTempController._averaged_temp
\* lines 163-164: samples older than the cutoff leave the window at its head
RECURSIVE Prune(_, _)
Prune(buf, cutoff) ==
  IF buf # <<>> /\ buf[1][1] < cutoff THEN Prune(Tail(buf), cutoff) ELSE buf

RECURSIVE SumVals(_)
SumVals(buf) == IF buf = <<>> THEN 0 ELSE buf[1][2] + SumVals(Tail(buf))

\* line 162: the shortest integration window
WindowFloor == 5

\* variant: the window is taken as given
CutoffNoFloor(t, integrate_seconds) == t - integrate_seconds

\* line 162: the start of the integration window
Cutoff(t, integrate_seconds) == t - Max(WindowFloor, integrate_seconds)

\* lines 165-167: None for an empty window, the mean of its values otherwise
Average(buf) == IF buf = <<>> THEN NoneVal ELSE Some(Temp(SumVals(buf), Len(buf)))

\* deque(maxlen=512).append: a full window drops its oldest sample
BufMaxLen == 512
Append512(buf, sample) ==
  IF Len(buf) >= BufMaxLen THEN Tail(buf) \o <<sample>> ELSE buf \o <<sample>>

\* --------------------------------- FanTempController._get_fan_options
\* The entry options are a dict (a function on its keys); texts are
\* sequences of characters, profile names are stored trimmed.
ProfileData(curve, integrate, interval, deadband) ==
  ("temp_curve" :> curve) @@ ("temp_integrate_seconds" :> integrate)
    @@ ("temp_update_min_interval" :> interval) @@ ("temp_deadband_pct" :> deadband)

\* temp_controller.py lines 17-36
DEFAULT_PROFILES ==
  ("quiet" :> ProfileData(<<"4", "5", "=", "2", "5", ",", " ", "6", "0", "=", "5", "5", ",",
                            " ", "7", "5", "=", "1", "0", "0">>, 60, 15, 5))
    @@ ("balanced" :> ProfileData(<<"4", "5", "=", "3", "5", ",", " ", "6", "0", "=", "6", "0",
                                    ",", " ", "7", "0", "=", "1", "0", "0">>, 30, 10, 3))
    @@ ("aggressive" :> ProfileData(<<"4", "5", "=", "4", "0", ",", " ", "5", "5", "=", "7", "0",
                                      ",", " ", "6", "5", "=", "1", "0", "0">>, 15, 5, 2))

\* the controller of this fan: str(self.fan_index) is its key under "fans"
FanIndex == 0
FanKey == Digits[FanIndex + 1]

\* line 115
FanOptsOf(opts) == Get(Get(opts, "fans", EmptyDict), FanKey, EmptyDict)

\* lines 118-127: the global values and their defaults
DefaultIntegrateSeconds == 30
DefaultMinInterval == 10
DefaultDeadband == 3
GlobalOptions(opts) ==
  [min_pwm |-> Get(opts, "min_pwm", 0),
   min_pwm_calibrated |-> Get(opts, "min_pwm_calibrated", FALSE),
   temp_entity |-> Strip(Get(opts, "temp_entity", <<>>)),
   temp_curve |-> Strip(Get(opts, "temp_curve", <<>>)),
   temp_integrate_seconds |-> Get(opts, "temp_integrate_seconds", DefaultIntegrateSeconds),
   temp_update_min_interval |-> Get(opts, "temp_update_min_interval", DefaultMinInterval),
   temp_deadband_pct |-> Get(opts, "temp_deadband_pct", DefaultDeadband),
   profile |-> ""]

\* lines 130-134: the data of the selected profile, custom before built-in
ProfileName(opts) == Get(FanOptsOf(opts), "profile", "")
ProfileOf(opts) ==
  LET name == ProfileName(opts)
      custom == Get(Get(opts, "profiles", EmptyDict), name, EmptyDict)
  IN IF name = "" THEN EmptyDict
     ELSE IF custom # EmptyDict THEN custom
     ELSE Get(DEFAULT_PROFILES, name, EmptyDict)

\* lines 135-144: the profile replaces the curve and timing values it holds
WithProfile(res, opts) ==
  LET pd == ProfileOf(opts)
  IN IF pd = EmptyDict THEN res
     ELSE [res EXCEPT
             !.profile = ProfileName(opts),
             !.temp_curve = Get(pd, "temp_curve", @),
             !.temp_integrate_seconds = Get(pd, "temp_integrate_seconds", @),
             !.temp_update_min_interval = Get(pd, "temp_update_min_interval", @),
             !.temp_deadband_pct = Get(pd, "temp_deadband_pct", @)]

\* variant: the per-fan curve also replaces the curve of a selected profile
WithFanOverridesCurveFirst(res, opts) ==
  LET fo == FanOptsOf(opts)
  IN [res EXCEPT
        !.min_pwm = Get(fo, "min_pwm", @),
        !.min_pwm_calibrated = Get(fo, "min_pwm_calibrated", @),
        !.temp_entity = IF Get(fo, "temp_entity", <<>>) # <<>> THEN Strip(fo["temp_entity"]) ELSE @,
        !.temp_curve = IF Get(fo, "temp_curve", <<>>) # <<>> THEN fo["temp_curve"] ELSE @]

\* lines 147-156: the per-fan values replace the global ones; the per-fan
\* curve only when no profile is selected
WithFanOverrides(res, opts) ==
  LET fo == FanOptsOf(opts)
  IN [res EXCEPT
        !.min_pwm = Get(fo, "min_pwm", @),
        !.min_pwm_calibrated = Get(fo, "min_pwm_calibrated", @),
        !.temp_entity = IF Get(fo, "temp_entity", <<>>) # <<>> THEN Strip(fo["temp_entity"]) ELSE @,
        !.temp_curve = IF ProfileName(opts) = "" /\ Get(fo, "temp_curve", <<>>) # <<>>
                       THEN fo["temp_curve"] ELSE @]

\* _get_fan_options(): the settings of this fan
GetFanOptions(opts) == WithFanOverrides(WithProfile(GlobalOptions(opts), opts), opts)

\* lines 174-176 and 189: the gate of apply()
MinCalOk(fo) == fo.min_pwm_calibrated /\ fo.min_pwm > 0
GateOpen(fo) == MinCalOk(fo) /\ fo.temp_entity # <<>> /\ parse_curve(fo.temp_curve) # <<>>

\* ------------------------------------------------------------------ state
VARIABLES
  fan_count,            \* OpenFanApi._fan_count
  last_pwm_by_index,    \* OpenFanApi._last_pwm_by_index
  min_pwm,              \* OpenFanApi._min_pwm
  failure_threshold,    \* OpenFanApi._failure_threshold
  stall_consecutive,    \* OpenFanApi._stall_consecutive
  consecutive_failures, \* OpenFanCoordinator._consecutive_failures
  forced_unavailable,   \* OpenFanCoordinator._forced_unavailable
  last_error,           \* OpenFanCoordinator._last_error
  stall_by_index,       \* OpenFanCoordinator._stall_by_index
  notified_by_index,    \* OpenFanCoordinator._notified_by_index
  data,                 \* the snapshot the coordinator publishes
  last_update_success,  \* whether the last poll returned (TRUE) or raised UpdateFailed
  poll,                 \* the poll in progress: position and locals
  ret,                  \* the client call that completed in the last step and its outcome
  fired,                \* fan indices whose stall event was fired in the last step
  options,              \* entry.options, read by get_options()
  temp_buf,             \* FanTempController._temp_buf: samples <<timestamp, value>>
  state,                \* FanTempController.state (FanControllerState)
  subscribed,           \* _current_temp_entity, _unsub_temp and the listeners it registered
  calib,                \* the calibrate_min run in progress: position and locals
  now,                  \* time.monotonic(), in seconds
  inflight,             \* per caller, its apply() suspended in the set-PWM callback
  applied,              \* the apply() step taken in the last step and its locals
  last_written,         \* value of the controller's latest write the device accepted
  tick                  \* the _periodic_temp_control callback in progress

vars == <<fan_count, last_pwm_by_index, min_pwm, failure_threshold, stall_consecutive,
          consecutive_failures, forced_unavailable, last_error, stall_by_index,
          notified_by_index, data, last_update_success, poll, ret, fired,
          options, temp_buf, state, subscribed, calib, now, inflight, applied, last_written,
          tick>>

apiVars == <<fan_count, last_pwm_by_index>>
tunables == <<min_pwm, failure_threshold, stall_consecutive>>
coordVars == <<consecutive_failures, forced_unavailable, last_error, stall_by_index,
               notified_by_index, data, last_update_success>>
tempVars ==
  <<options, temp_buf, state, subscribed, calib, now, inflight, applied, last_written, tick>>

NoData == [published |-> FALSE, fans |-> EmptyDict, led |-> FALSE, is_12v |-> FALSE]
NoPoll == [pc |-> "idle", rpm_by_index |-> EmptyDict]
NoRet == [op |-> "none", idx |-> 0, arg |-> 0, ok |-> FALSE, exc |-> NoExc,
          result |-> EmptyDict, reqs |-> <<>>, resps |-> <<>>]

\* --------------------------------- OpenFanCoordinator._async_update_data
\* variant: the threshold has to be exceeded
ForcedAfterFailureStrict(failures, thresh, forced) ==
  IF failures > OrDefault(thresh, DefaultFailureThreshold) THEN TRUE ELSE forced

\* lines 99-101: the forced-unavailable flag after a failure was counted
ForcedAfterFailure(failures, thresh, forced) ==
  IF failures >= OrDefault(thresh, DefaultFailureThreshold) THEN TRUE ELSE forced

\* variant: the count restarts at every failure
CountFailureRestart(failures) == 1

\* line 98: "self._consecutive_failures += 1"
CountFailure(failures) == failures + 1

\* variant: a failing fetch keeps the values of the previous snapshot
LedOrDefaultStale(r) ==
  LET st == GetOpenFanStatus(r)
  IN IF st.exc # NoExc THEN <<data.led, data.is_12v>> ELSE <<st.led, st.is_12v>>

\* lines 45-49: LED / 12V of the snapshot; a failing fetch is tolerated
LedOrDefault(r) ==
  LET st == GetOpenFanStatus(r)
  IN IF st.exc # NoExc THEN <<FALSE, FALSE>> ELSE <<st.led, st.is_12v>>

\* the outcome of a poll: returned (ok) or raised UpdateFailed(exc);
\* resps is the answer to the LED/12V fetch of a poll that returned
PollRet(ok, exc, resps) ==
  [op |-> "poll", idx |-> 0, arg |-> 0, ok |-> ok, exc |-> exc, result |-> EmptyDict,
   reqs |-> <<>>, resps |-> resps]

\* lines 36-41 and 96-105: the poll calls get_status_all, rs being the
\* answers of the two status endpoints.  When it returns, the failure
\* gating is cleared and the poll goes on to the LED/12V fetch; when it
\* raises, the failure is counted and the poll raises UpdateFailed.
PollStatus(rs) ==
  /\ poll.pc = "idle"
  /\ LET o == GetStatusAllOutcome(rs, fan_count, last_pwm_by_index)
     IN IF o.ok
        THEN /\ fan_count' = o.fan_count
             /\ last_pwm_by_index' = o.cache
             /\ consecutive_failures' = 0
             /\ forced_unavailable' = FALSE
             /\ last_error' = NoExc
             /\ poll' = [pc |-> "led", rpm_by_index |-> o.rpm_by_index]
             /\ ret' = NoRet
             /\ UNCHANGED last_update_success
        ELSE /\ consecutive_failures < MaxFailures
             /\ last_error' = o.exc
             /\ consecutive_failures' = CountFailure(consecutive_failures)
             /\ forced_unavailable' =
                  ForcedAfterFailure(CountFailure(consecutive_failures), failure_threshold,
                                     forced_unavailable)
             /\ last_update_success' = FALSE
             /\ poll' = NoPoll
             /\ ret' = PollRet(FALSE, o.exc, <<>>)
             /\ UNCHANGED apiVars
  /\ fired' = {}
  /\ UNCHANGED <<tunables, stall_by_index, notified_by_index, data, tempVars>>

\* lines 52-63, for fan idx with the rpm of this poll
StallThreshold == OrDefault(stall_consecutive, DefaultStallConsecutive)
CachedPwm(idx) == Get(last_pwm_by_index, idx, 0)
\* variant: the minimum PWM is ignored
StalledNowAnyPwm(idx, rpm) == CachedPwm(idx) > 0 /\ rpm = 0
StalledNow(idx, rpm) == CachedPwm(idx) > Max(0, min_pwm) /\ rpm = 0
NewCount(idx, rpm) == IF StalledNow(idx, rpm) THEN Get(stall_by_index, idx, 0) + 1 ELSE 0
StalledFlag(idx, rpm) == NewCount(idx, rpm) >= StallThreshold

\* line 65: the stall event and notification are emitted for fan idx
FiresStall(idx, rpm) == StalledFlag(idx, rpm) /\ ~Get(notified_by_index, idx, FALSE)

\* variant: the flag is never cleared
NewNotifiedSticky(idx, rpm) ==
  IF FiresStall(idx, rpm) THEN TRUE ELSE Get(notified_by_index, idx, FALSE)

\* lines 65-80: the "already notified" flag of fan idx after the poll
NewNotified(idx, rpm) ==
  IF FiresStall(idx, rpm) THEN TRUE
  ELSE IF ~StalledFlag(idx, rpm) THEN FALSE
  ELSE Get(notified_by_index, idx, FALSE)

\* variant: the count of a fan the status omits starts again
KeptCountReset(idx) == 0

\* line 57: the loop visits the fans of the status response only; the
\* entry of any other fan stays as it is
KeptCount(idx) == stall_by_index[idx]

\* lines 82-86
FanEntry(idx, rpm) ==
  [rpm |-> Max(0, rpm), pwm |-> Clamp100(CachedPwm(idx)), stalled |-> StalledFlag(idx, rpm)]

\* lines 45-94: /api/v0/openfan/status answers r; the poll classifies every
\* fan of the status response and returns the snapshot
PollFinish(r) ==
  /\ poll.pc = "led"
  /\ LET rpms == poll.rpm_by_index
         st == LedOrDefault(r)
     IN /\ \A i \in DOMAIN rpms : NewCount(i, rpms[i]) <= MaxStall
        /\ stall_by_index' =
             [i \in (DOMAIN stall_by_index) \cup (DOMAIN rpms) |->
                IF i \in DOMAIN rpms THEN NewCount(i, rpms[i]) ELSE KeptCount(i)]
        /\ notified_by_index' =
             [i \in (DOMAIN notified_by_index) \cup (DOMAIN rpms) |->
                IF i \in DOMAIN rpms THEN NewNotified(i, rpms[i]) ELSE notified_by_index[i]]
        /\ fired' = {i \in DOMAIN rpms : FiresStall(i, rpms[i])}
        /\ data' = [published |-> TRUE,
                    fans |-> [i \in DOMAIN rpms |-> FanEntry(i, rpms[i])],
                    led |-> st[1], is_12v |-> st[2]]
  /\ last_update_success' = TRUE
  /\ poll' = NoPoll
  /\ ret' = PollRet(TRUE, NoExc, <<r>>)
  /\ UNCHANGED <<apiVars, tunables, consecutive_failures, forced_unavailable, last_error,
                 tempVars>>

\* ------------------------------------------------------- client calls
\* OpenFanApi.get_status_all called outside the poll (get_status,
\* get_status_index); rs are the answers of the two status endpoints
GetStatusAll(rs) ==
  /\ LET o == GetStatusAllOutcome(rs, fan_count, last_pwm_by_index)
     IN /\ fan_count' = o.fan_count
        /\ last_pwm_by_index' = o.cache
        /\ ret' = [op |-> "get_status_all", idx |-> 0, arg |-> 0, ok |-> o.ok, exc |-> o.exc,
                   result |-> o.rpm_by_index, reqs |-> SubSeq(StatusPaths, 1, o.nreq),
                   resps |-> SubSeq(rs, 1, o.nreq)]
  /\ fired' = {}
  /\ UNCHANGED <<tunables, coordVars, poll, tempVars>>

\* OpenFanApi.set_pwm_index(idx, v) on the client; rs are the answers of the
\* three endpoints
SetPwmIndexCall(idx, v, rs) ==
  /\ LET value == ClampPercent(v)
         o == SetPwmIndexOutcome(rs)
     IN /\ IF o.ok
           THEN /\ last_pwm_by_index' = CacheAfterWrite(last_pwm_by_index, idx, value)
                /\ fan_count' = RememberFanCount(fan_count, idx + 1)
           ELSE UNCHANGED apiVars
        /\ ret' = [op |-> "set_pwm_index", idx |-> idx, arg |-> v, ok |-> o.ok, exc |-> o.exc,
                   result |-> EmptyDict, reqs |-> SubSeq(PwmPaths, 1, o.nreq),
                   resps |-> SubSeq(rs, 1, o.nreq)]
  /\ fired' = {}
  /\ UNCHANGED <<tunables, coordVars, poll>>

\* set_pwm_index called by the fan entity or a service
SetPwmIndex(idx, v, rs) == SetPwmIndexCall(idx, v, rs) /\ UNCHANGED tempVars

\* OpenFanApi.set_pwm_all(v); its endpoint answers r
SetPwmAll(v, r) ==
  /\ IF IsWriteOk(r)
     THEN last_pwm_by_index' =
            [i \in (DOMAIN last_pwm_by_index) \cup (0..(Max(1, fan_count) - 1)) |->
               IF i < Max(1, fan_count) THEN ClampPercent(v) ELSE last_pwm_by_index[i]]
     ELSE UNCHANGED last_pwm_by_index
  /\ ret' = [op |-> "set_pwm_all", idx |-> 0, arg |-> v, ok |-> IsWriteOk(r),
             exc |-> IF IsWriteOk(r) THEN NoExc ELSE WriteExc(PwmAllPath, r),
             result |-> EmptyDict, reqs |-> <<PwmAllPath>>, resps |-> <<r>>]
  /\ fired' = {}
  /\ UNCHANGED <<fan_count, tunables, coordVars, poll, tempVars>>

\* OpenFanApi.set_rpm_index(idx, value); its endpoint answers r
SetRpmIndex(idx, r) ==
  /\ IF IsWriteOk(r)
     THEN fan_count' = RememberFanCount(fan_count, idx + 1)
     ELSE UNCHANGED fan_count
  /\ ret' = [op |-> "set_rpm_index", idx |-> idx, arg |-> 0, ok |-> IsWriteOk(r),
             exc |-> IF IsWriteOk(r) THEN NoExc ELSE WriteExc(RpmPath, r),
             result |-> EmptyDict, reqs |-> <<RpmPath>>, resps |-> <<r>>]
  /\ fired' = {}
  /\ UNCHANGED <<last_pwm_by_index, tunables, coordVars, poll, tempVars>>

\* lines 232 and 242-246: the endpoint of each state of the two switches
LedPath(enabled) == IF enabled THEN "/api/v0/led/enable" ELSE "/api/v0/led/disable"
VoltagePath(enabled) ==
  IF enabled THEN "/api/v0/fan/voltage/high?confirm=true"
  ELSE "/api/v0/fan/voltage/low?confirm=true"

\* lines 233-238 and 247-252: the request raises when it times out or the
\* status is 400 or more; a body that does not read as success is only
\* logged ("non-OK body") and the call returns
SwitchReturns(r) == r.kind = "http" /\ r.status < HttpErrorFrom

OkWord == JStr(<<"o", "k">>)
ErrorWord == JStr(<<"e", "r", "r", "o", "r">>)

\* what the call returns, "data or {"status": "ok"}", for a text body
\* (data is None) and for a JSON object
SwitchResult(r) ==
  IF r.body.form = "object" /\ r.body.obj # EmptyDict THEN r.body.obj ELSE "status" :> OkWord

\* OpenFanApi.led_set(enabled); its endpoint answers r
LedSet(enabled, r) ==
  /\ ret' = [op |-> "led_set", idx |-> 0, arg |-> IF enabled THEN 1 ELSE 0,
             ok |-> SwitchReturns(r),
             exc |-> IF SwitchReturns(r) THEN NoExc ELSE WriteExc(LedPath(enabled), r),
             result |-> IF SwitchReturns(r) THEN SwitchResult(r) ELSE EmptyDict,
             reqs |-> <<LedPath(enabled)>>, resps |-> <<r>>]
  /\ fired' = {}
  /\ UNCHANGED <<apiVars, tunables, coordVars, poll, tempVars>>

\* OpenFanApi.set_voltage_12v(enabled); its endpoint answers r
SetVoltage12v(enabled, r) ==
  /\ ret' = [op |-> "set_voltage_12v", idx |-> 0, arg |-> IF enabled THEN 1 ELSE 0,
             ok |-> SwitchReturns(r),
             exc |-> IF SwitchReturns(r) THEN NoExc ELSE WriteExc(VoltagePath(enabled), r),
             result |-> IF SwitchReturns(r) THEN SwitchResult(r) ELSE EmptyDict,
             reqs |-> <<VoltagePath(enabled)>>, resps |-> <<r>>]
  /\ fired' = {}
  /\ UNCHANGED <<apiVars, tunables, coordVars, poll, tempVars>>


\* ------------------------------------------------------ FanTempController
\* temp_controller.py lines 57-70: the state of a new controller
NewState ==
  [active |-> FALSE, temp_entity |-> <<>>, temp_curve |-> <<>>, profile |-> "",
   temp_integrate_seconds |-> 30, temp_update_min_interval |-> 10, temp_deadband_pct |-> 3,
   min_pwm |-> 0, min_pwm_calibrated |-> FALSE, temp_avg |-> NoneVal,
   last_target_pwm |-> NoneVal, last_applied_pwm |-> NoneVal, last_apply_ts |-> 0]

NoApplied == [op |-> "none", trigger |-> "", outcome |-> ""]

\* no run of the periodic callback is in progress; invoked holds the fans
\* whose controller the latest run has applied, raised whether it ended
\* with an exception
NoTick == [pc |-> "idle", invoked |-> {}, raised |-> FALSE]

\* variant: the resolved settings are not recorded
RecordedNothing(st, fo) == st

\* lines 179-186: the resolved settings are recorded in the state
Recorded(st, fo) ==
  [st EXCEPT !.min_pwm = fo.min_pwm,
             !.min_pwm_calibrated = fo.min_pwm_calibrated,
             !.temp_entity = fo.temp_entity,
             !.temp_curve = fo.temp_curve,
             !.profile = fo.profile,
             !.temp_integrate_seconds = fo.temp_integrate_seconds,
             !.temp_update_min_interval = fo.temp_update_min_interval,
             !.temp_deadband_pct = fo.temp_deadband_pct]

UnknownWord == <<"u", "n", "k", "n", "o", "w", "n">>
UnavailableWord == <<"u", "n", "a", "v", "a", "i", "l", "a", "b", "l", "e">>

\* lines 209-211 and 297-300: the state object exists, is not one of the
\* placeholder words and converts to a number
IsReading(st) ==
  st # NoneVal /\ st[1] \notin {UnknownWord, UnavailableWord, <<>>} /\ IsFloatText(st[1])

\* lines 204-215: the window after pruning and, when it is empty, after the
\* bootstrap from the current state of the temperature entity
WindowAt(buf, st, t, integrate_seconds) ==
  LET pruned == Prune(buf, Cutoff(t, integrate_seconds))
  IN IF pruned = <<>> /\ IsReading(st)
     THEN Prune(Append512(pruned, <<t, FloatVal(st[1])>>), Cutoff(t, integrate_seconds))
     ELSE pruned

Abs(x) == IF x < 0 THEN 0 - x ELSE x

\* variant: a difference equal to the deadband is suppressed too
InDeadbandInclusive(last_applied, target, dead) ==
  last_applied # NoneVal /\ Abs(target - last_applied[1]) <= Max(0, dead)

\* line 252
InDeadband(last_applied, target, dead) ==
  last_applied # NoneVal /\ Abs(target - last_applied[1]) < Max(0, dead)

\* variant: the interval is not checked
TooSoonNever(t, last_ts, min_iv) == FALSE

\* variant: a floor of one day
MinIntervalFloorDay == 24 * 60 * 60

\* line 258
MinIntervalFloor == 1
TooSoon(t, last_ts, min_iv) == (t - last_ts) < Max(MinIntervalFloor, min_iv)

\* The callers of apply(): the periodic loop, which awaits each call
\* (__init__.py lines 98-100), and the task _on_temp creates at a change of
\* the temperature entity (temp_controller.py line 304).  Each has at most
\* one call suspended in the callback here.
ApplyTriggers == {"periodic", "state_change"}

\* The services that await apply() (__init__.py lines 268 and 314), with
\* one call suspended each
ServiceTriggers == {"set_temp_control", "profile_applied"}
NoneInFlight == [t \in ApplyTriggers \cup ServiceTriggers |-> NoneVal]

\* variant: a closed gate leaves the active flag as it was
ActiveWhenGatedKeep(st) == st.active

\* line 190
ActiveWhenGated(st) == FALSE

\* apply(trigger) from its start to its return or to the call of the
\* set-PWM callback (lines 171-264), where it is suspended; sensor is the
\* state of the temperature entity in hass.states (NoneVal: no such entity)
ApplyFrom(opts, trigger, sensor) ==
  LET fo == GetFanOptions(opts)
      pts == parse_curve(fo.temp_curve)
      rec == Recorded(state, fo)
      buf == WindowAt(temp_buf, sensor, now, fo.temp_integrate_seconds)
      avg == Average(buf)
      raw == CurveTarget(pts, avg[1])
      target == FloorToMin(raw, fo.min_pwm)
      call == [NoApplied EXCEPT !.op = "start", !.trigger = trigger]
      noted == [rec EXCEPT !.active = TRUE, !.temp_avg = avg,
                           !.last_target_pwm = Some(target)]
  IN /\ inflight[trigger] = NoneVal
     /\ IF ~GateOpen(fo)
        THEN /\ state' = [rec EXCEPT !.active = ActiveWhenGated(state)]
             /\ applied' = [call EXCEPT !.outcome = "gated"]
             /\ UNCHANGED <<temp_buf, inflight>>
        ELSE IF avg = NoneVal
        THEN /\ state' = [rec EXCEPT !.active = TRUE]
             /\ temp_buf' = buf
             /\ applied' = [call EXCEPT !.outcome = "no_temp"]
             /\ UNCHANGED inflight
        ELSE IF InDeadband(state.last_applied_pwm, target, fo.temp_deadband_pct)
        THEN /\ state' = noted
             /\ temp_buf' = buf
             /\ applied' = [call EXCEPT !.outcome = "deadband"]
             /\ UNCHANGED inflight
        ELSE IF TooSoon(now, state.last_apply_ts, fo.temp_update_min_interval)
        THEN /\ state' = noted
             /\ temp_buf' = buf
             /\ applied' = [call EXCEPT !.outcome = "interval"]
             /\ UNCHANGED inflight
        ELSE /\ state' = [rec EXCEPT !.active = TRUE]
             /\ temp_buf' = buf
             /\ applied' = [call EXCEPT !.outcome = "issued"]
             /\ inflight' = [inflight EXCEPT ![trigger] =
                               Some([pc |-> "write", target |-> target, temp |-> avg,
                                     now |-> now])]
     /\ ret' = NoRet
     /\ fired' = {}
     /\ UNCHANGED <<apiVars, tunables, coordVars, poll, subscribed, calib, now, last_written>>

\* a call of apply(trigger) while the options of the entry stay as they are
ApplyStart(trigger, sensor) ==
  ApplyFrom(options, trigger, sensor) /\ UNCHANGED <<options, tick>>

\* variant: a write that raised is booked like one that succeeded
AfterFailedWriteBooked(st, call) ==
  [st EXCEPT !.temp_avg = call.temp, !.last_target_pwm = Some(call.target),
             !.last_applied_pwm = Some(call.target), !.last_apply_ts = call.now]

\* temp_controller.py line 264: the exception of the awaited callback leaves
\* apply() before lines 265-268 are reached
AfterFailedWrite(st, call) == st

\* __init__.py lines 68-70: the callback's "await dev.api.set_pwm_index(...)"
\* of the suspended call of caller c is answered with rs.  When the write
\* raises, so does apply(); otherwise the callback goes on to request the
\* refresh.
WriteAnswered(c, rs) ==
  /\ inflight[c] # NoneVal
  /\ inflight[c][1].pc = "write"
  /\ SetPwmIndexCall(FanIndex, inflight[c][1].target, rs)
  /\ LET call == [NoApplied EXCEPT !.op = "write", !.trigger = c]
     IN IF SetPwmIndexOutcome(rs).ok
        THEN /\ inflight' = [inflight EXCEPT ![c] = Some([@[1] EXCEPT !.pc = "refresh"])]
             /\ last_written' = Some(ClampPercent(inflight[c][1].target))
             /\ applied' = [call EXCEPT !.outcome = "written"]
             /\ UNCHANGED state
        ELSE /\ inflight' = [inflight EXCEPT ![c] = NoneVal]
             /\ applied' = [call EXCEPT !.outcome = "failed"]
             /\ state' = AfterFailedWrite(state, inflight[c][1])
             /\ UNCHANGED last_written
  /\ UNCHANGED <<options, temp_buf, subscribed, calib, now>>

\* variant: the timestamp is not recorded
ApplyTimestampKeep(st, t) == st.last_apply_ts

\* line 268
ApplyTimestamp(st, t) == t

\* __init__.py line 71 and temp_controller.py lines 265-268: the refresh
\* request of the suspended call of caller c returns (the poll it asks for
\* is the coordinator's own task) and apply() records what it wrote
RefreshReturned(c) ==
  /\ inflight[c] # NoneVal
  /\ inflight[c][1].pc = "refresh"
  /\ state' = [state EXCEPT !.temp_avg = inflight[c][1].temp,
                            !.last_target_pwm = Some(inflight[c][1].target),
                            !.last_applied_pwm = Some(inflight[c][1].target),
                            !.last_apply_ts = ApplyTimestamp(state, inflight[c][1].now)]
  /\ inflight' = [inflight EXCEPT ![c] = NoneVal]
  /\ applied' = [NoApplied EXCEPT !.op = "finish", !.trigger = c, !.outcome = "applied"]
  /\ ret' = NoRet
  /\ fired' = {}
  /\ UNCHANGED <<apiVars, tunables, coordVars, poll, options, temp_buf, subscribed, calib, now,
                 last_written>>

\* the two steps of a suspended call outside the periodic callback
ApplyWrite(c, rs) == WriteAnswered(c, rs) /\ UNCHANGED tick
ApplyFinish(c) == RefreshReturned(c) /\ UNCHANGED tick

\* ------------------------------- __init__.py, _periodic_temp_control
\* lines 78-86: a device set up with two fans has the controllers of fan
\* FanIndex and of fan OtherFan, in this order
OtherFan == 1
TickControllers == {FanIndex, OtherFan}

\* lines 98-100: the callback fires and awaits apply("periodic") of the
\* first controller, which returns or is suspended in its write
PeriodicTempControl(sensor) ==
  /\ tick.pc = "idle"
  /\ ApplyFrom(options, "periodic", sensor)
  /\ tick' = [pc |-> IF applied'.outcome = "issued" THEN "apply" ELSE "next",
              invoked |-> {FanIndex}, raised |-> FALSE]
  /\ UNCHANGED options

\* the write of the first controller is answered: an exception of the
\* callback leaves apply() (line 264) and the loop of lines 99-100, which
\* has no handler, so the run of the callback ends
PeriodicWrite(rs) ==
  /\ tick.pc = "apply"
  /\ WriteAnswered("periodic", rs)
  /\ tick' = IF SetPwmIndexOutcome(rs).ok THEN tick
             ELSE [tick EXCEPT !.pc = "idle", !.raised = TRUE]

\* apply() of the first controller returns; the loop goes on
PeriodicFinish ==
  /\ tick.pc = "apply"
  /\ RefreshReturned("periodic")
  /\ tick' = [tick EXCEPT !.pc = "next"]

\* line 100 for the controller of fan OtherFan, from the call of its
\* apply() to its return: it writes nothing (w = NoneVal) or writes w[1],
\* the endpoints answering rs; it is the last controller of the loop
PeriodicNext(w, rs) ==
  /\ tick.pc = "next"
  /\ IF w = NoneVal
     THEN /\ ret' = NoRet
          /\ fired' = {}
          /\ UNCHANGED <<apiVars, tunables, coordVars, poll>>
     ELSE SetPwmIndexCall(OtherFan, w[1], rs)
  /\ tick' = [pc |-> "idle", invoked |-> tick.invoked \cup {OtherFan},
              raised |-> w # NoneVal /\ ~SetPwmIndexOutcome(rs).ok]
  /\ applied' = [NoApplied EXCEPT !.op = "other", !.trigger = "periodic"]
  /\ UNCHANGED <<options, temp_buf, state, subscribed, calib, now, inflight, last_written>>

\* occurrences of x in seq; n copies of x
Count(seq, x) == Cardinality({i \in 1..Len(seq) : seq[i] = x})
RECURSIVE Repeat(_, _)
Repeat(x, n) == IF n = 0 THEN <<>> ELSE <<x>> \o Repeat(x, n - 1)

\* FanTempController.__init__, lines 108-109: no entity, no handle; no
\* listener is registered with async_track_state_change_event
NoSubscription == [entity |-> <<>>, handle |-> FALSE, listeners |-> <<>>]

\* lines 308-315, unsubscribe(): the handle, when set, removes the listener
\* it was returned for (the one registered last) and is dropped
Unsubscribed(sub) ==
  [sub EXCEPT !.handle = FALSE,
              !.listeners = IF sub.handle THEN SubSeq(@, 1, Len(@) - 1) ELSE @]

\* variant: the handle is dropped without being called
ReleaseOldForget(sub) == [sub EXCEPT !.handle = FALSE]

\* lines 283-288: the previous subscription is released
ReleaseOld(sub) ==
  [sub EXCEPT !.handle = FALSE,
              !.listeners = IF sub.handle THEN SubSeq(@, 1, Len(@) - 1) ELSE @]

\* lines 281-306, subscribe_temp_entity(temp_entity)
Subscribed(sub, temp_entity) ==
  LET old == ReleaseOld(sub)
  IN IF temp_entity = <<>>
     THEN [old EXCEPT !.entity = temp_entity]
     ELSE [entity |-> temp_entity, handle |-> TRUE,
           listeners |-> Append(old.listeners, temp_entity)]

\* variant: a placeholder state is taken for a reading
HeardAnything(st) == st # NoneVal /\ IsFloatText(st[1])

\* lines 296-302, _on_temp: the new state is one the callback goes on with
Heard(st) == IsReading(st)

\* lines 295-304, _on_temp: the entity ent changes to st (NoneVal: it is
\* removed); every listener registered for ent appends a reading to the
\* window and creates a task for apply("state_change")
TempStateChange(ent, st) ==
  LET n == IF Heard(st) THEN Count(subscribed.listeners, ent) ELSE 0
  IN /\ Len(temp_buf) + n <= MaxSamples
     /\ temp_buf' = temp_buf \o Repeat(<<now, FloatVal(st[1])>>, n)
     /\ applied' = [op |-> "on_temp", trigger |-> "state_change",
                    outcome |-> IF n > 0 THEN "appended" ELSE "ignored", tasks |-> n,
                    entity |-> ent, reading |-> st]
     /\ ret' = NoRet
     /\ fired' = {}
     /\ UNCHANGED <<apiVars, tunables, coordVars, poll, options, state, subscribed, calib,
                    now, inflight, last_written, tick>>

\* a call of subscribe_temp_entity(temp_entity)
SubscribeTempEntity(temp_entity) ==
  /\ subscribed' = Subscribed(subscribed, temp_entity)
  /\ applied' = [op |-> "subscribe", trigger |-> "", outcome |-> "", entity |-> temp_entity]
  /\ ret' = NoRet
  /\ fired' = {}
  /\ UNCHANGED <<apiVars, tunables, coordVars, poll, options, temp_buf, state, calib, now,
                 inflight, last_written, tick>>

\* __init__.py lines 107-109: a call of unsubscribe()
Unsubscribe ==
  /\ subscribed' = Unsubscribed(subscribed)
  /\ applied' = [NoApplied EXCEPT !.op = "unsubscribe"]
  /\ ret' = NoRet
  /\ fired' = {}
  /\ UNCHANGED <<apiVars, tunables, coordVars, poll, options, temp_buf, state, calib, now,
                 inflight, last_written, tick>>

\* line 203, time.monotonic(): the clock reads ClockStart when the
\* controller is constructed; time passes in steps of TickSeconds
ClockStart == 6
TickSeconds == 6
Elapse(d) ==
  /\ now + d <= ClockStart + MaxTicks * TickSeconds
  /\ now' = now + d
  /\ applied' = NoApplied
  /\ ret' = NoRet
  /\ fired' = {}
  /\ UNCHANGED <<apiVars, tunables, coordVars, poll, options, temp_buf, state, subscribed, calib,
                 inflight, last_written, tick>>

Tick == Elapse(TickSeconds)

\* lines 160-167: a call of _averaged_temp(now, integrate_seconds)
AveragedTemp(integrate_seconds) ==
  /\ temp_buf' = Prune(temp_buf, Cutoff(now, integrate_seconds))
  /\ applied' = [op |-> "average", trigger |-> "", outcome |-> "",
                 window |-> integrate_seconds, avg |-> Average(temp_buf')]
  /\ ret' = NoRet
  /\ fired' = {}
  /\ UNCHANGED <<apiVars, tunables, coordVars, poll, options, state, subscribed, calib, now,
                 inflight, last_written, tick>>

\* options_flow.py async_create_entry: the options of the entry are replaced
SetOptions(o) ==
  /\ options' = o
  /\ applied' = NoApplied
  /\ ret' = NoRet
  /\ fired' = {}
  /\ UNCHANGED <<apiVars, tunables, coordVars, poll, temp_buf, state, subscribed, calib, now,
                 inflight, last_written, tick>>

\* __init__.py lines 150-168: _update_options(update, fan_index=FanIndex)
UpdateFanOptions(opts, update) ==
  LET fans == Get(opts, "fans", EmptyDict)
      fo == Get(fans, FanKey, EmptyDict)
      merged == [k \in (DOMAIN fo) \cup (DOMAIN update) |->
                   IF k \in DOMAIN update THEN update[k] ELSE fo[k]]
  IN Put(opts, "fans", Put(fans, FanKey, merged))

\* variant: the last applied value survives
ClearedKeepApplied(st) ==
  [st EXCEPT !.active = FALSE, !.temp_avg = NoneVal, !.last_target_pwm = NoneVal,
             !.last_apply_ts = 0]

\* temp_controller.py lines 321-325
Cleared(st) ==
  [st EXCEPT !.active = FALSE, !.temp_avg = NoneVal, !.last_target_pwm = NoneVal,
             !.last_applied_pwm = NoneVal, !.last_apply_ts = 0]

\* svc_clear_temp_control (__init__.py lines 270-283) with
\* FanTempController.clear (temp_controller.py lines 317-325)
ClearTempControl ==
  /\ options' = UpdateFanOptions(options, ("temp_entity" :> <<>>) @@ ("profile" :> ""))
  /\ subscribed' = Unsubscribed(subscribed)
  /\ temp_buf' = <<>>
  /\ state' = Cleared(state)
  /\ last_written' = NoneVal
  /\ applied' = [NoApplied EXCEPT !.op = "clear"]
  /\ ret' = NoRet
  /\ fired' = {}
  /\ UNCHANGED <<apiVars, tunables, coordVars, poll, calib, now, inflight, tick>>

\* ------------------------------------------------- what the device answers
RpmPayload(rpm0, rpm1) == ObjBody(("0" :> JNum(rpm0)) @@ ("1" :> JNum(rpm1)))

\* status answers seen by the poll: multi-fan endpoint, legacy endpoint
PollMultiResponses ==
  { Timeout,
    Http(200, RpmPayload(1200, 0)),
    Http(200, RpmPayload(0, 0)),
    Http(200, ObjBody("0" :> JNum(0))) }
PollLegacyResponses ==
  { Timeout,
    Http(500, TextBody(<<"E", "R", "R">>)),
    Http(200, NestedBody("status" :> OkWord, ("rpm" :> JStr(<<"0">>)) @@ ("pwm" :> JNum(150)))) }

\* answers to /api/v0/openfan/status
LedResponses ==
  { Timeout,
    Http(200, TextBody(<<"O", "K">>)),
    Http(200, NestedBody("status" :> OkWord,
                         ("act_led_enabled" :> JStr(<<"t", "r", "u", "e">>))
                           @@ ("fan_is_12v" :> JBool(FALSE)))) }

OkText == Http(200, TextBody(<<"O", "K">>))
Http500 == Http(500, TextBody(<<"O", "K">>))
JsonError == Http(200, ObjBody("status" :> ErrorWord))

\* percentages and endpoint answers of the PWM writes that run beside the poll
PollPwmInputs == {20, 150}
PollWriteAnswers == {<<OkText, Timeout, Timeout>>}

\* fan_count values of the config entry (0: not stored)
EntryFanCounts == {0, 1, 2}

\* option values the entry is set up with (options_flow.py ranges):
\* <<min_pwm, failure_threshold, stall_consecutive>>
OptionSets == {<<0, 3, 2>>, <<30, 2, 1>>}

\* OpenFanApi.__init__, OpenFanDevice.__init__, OpenFanCoordinator.__init__
\* and the tunables async_setup_entry copies from the options
\* __init__.py lines 88-92: the entity the controller subscribes to at setup
SetupTempEntity(opts) ==
  LET per_fan == Get(FanOptsOf(opts), "temp_entity", <<>>)
  IN Strip(IF per_fan # <<>> THEN per_fan ELSE Get(opts, "temp_entity", <<>>))

InitCoordinator ==
  /\ consecutive_failures = 0
  /\ forced_unavailable = FALSE
  /\ last_error = NoExc
  /\ stall_by_index = EmptyDict
  /\ notified_by_index = EmptyDict
  /\ data = NoData
  /\ last_update_success = TRUE
  /\ poll = NoPoll
  /\ ret = NoRet
  /\ fired = {}

\* no calibrate_min run is in progress
NoCalibration ==
  [pc |-> "idle", pct |-> 0, from_pct |-> 0, to_pct |-> 0, step |-> 0, rpm_threshold |-> 0,
   margin |-> 0, writes |-> 0]

\* FanTempController.__init__ with the options opts of the entry
InitController(opts) ==
  /\ options = opts
  /\ temp_buf = <<>>
  /\ state = NewState
  /\ subscribed = Subscribed(NoSubscription, SetupTempEntity(opts))
  /\ calib = NoCalibration
  /\ now = ClockStart
  /\ inflight = NoneInFlight
  /\ last_written = NoneVal
  /\ tick = NoTick

\* the device client and its tunables set up with the options opts
InitDevice(opts) ==
  /\ fan_count = DefaultFanCount
  /\ last_pwm_by_index = EmptyDict
  /\ min_pwm = Get(opts, "min_pwm", 0)
  /\ failure_threshold = Get(opts, "failure_threshold", DefaultFailureThreshold)
  /\ stall_consecutive = Get(opts, "stall_consecutive", DefaultStallConsecutive)

Init ==
  /\ fan_count \in {Max(1, OrDefault(n, DefaultFanCount)) : n \in EntryFanCounts}
  /\ last_pwm_by_index = EmptyDict
  /\ \E o \in OptionSets :
       /\ min_pwm = o[1]
       /\ failure_threshold = o[2]
       /\ stall_consecutive = o[3]
       /\ InitController(("min_pwm" :> o[1]) @@ ("failure_threshold" :> o[2])
                           @@ ("stall_consecutive" :> o[3]))
  /\ applied = NoApplied
  /\ InitCoordinator

\* ---------------------------------------------------------- specification
\* the device: the poll and the PWM writes of its callers
Next ==
  \/ \E r1 \in PollMultiResponses, r2 \in PollLegacyResponses : PollStatus(<<r1, r2>>)
  \/ \E r \in LedResponses : PollFinish(r)
  \/ \E idx \in Indices, v \in PollPwmInputs, rs \in PollWriteAnswers : SetPwmIndex(idx, v, rs)

Spec == Init /\ [][Next]_vars


\* ------------------------------------------------ the device client alone
\* status answers for calls of get_status_all
ApiStatusResponses ==
  { Timeout,
    Http(500, ObjBody("0" :> JNum(1200))),
    Http(200, TextBody(<<"O", "K">>)),
    Http(200, RpmPayload(1200, 0)),
    Http(200, NestedBody("status" :> OkWord,
                         ("1" :> JStr(<<"x">>)) @@ ("12" :> JNum(7)) @@ ("x" :> JNum(3)))),
    Http(200, NestedBody("status" :> OkWord, ("2" :> JNum(-5)))),
    Http(200, ObjBody(("rpm" :> JNum(1200)) @@ ("pwm_percent" :> JNum(50)))),
    Http(200, NestedBody("status" :> OkWord, ("rpm" :> JStr(<<"0">>)) @@ ("pwm" :> JNum(150)))),
    Http(200, ObjBody("status" :> ErrorWord)) }

\* answers of the legacy endpoint after the multi-fan endpoint failed
ApiLegacyResponses ==
  { Timeout,
    Http(500, ObjBody("rpm" :> JNum(1200))),
    Http(200, JsonBody(<<"n", "u", "l", "l">>)),
    Http(200, ObjBody(("rpm" :> JNum(1200)) @@ ("pwm_percent" :> JNum(50)))),
    Http(200, NestedBody("status" :> OkWord, ("rpm" :> JStr(<<"0">>)) @@ ("pwm" :> JNum(150)))) }

\* bodies a write endpoint may answer with
WriteBodies ==
  { TextBody(<<"O", "K">>),
    TextBody(<<"o", "k">>),
    TextBody(<<" ", "S", "u", "c", "c", "e", "s", "s", "\n">>),
    TextBody(<<>>),
    TextBody(<<" ", " ">>),
    TextBody(<<"E", "R", "R", "O", "R">>),
    TextBody(<<"O", "K", "!">>),
    JsonBody(<<"\"", "O", "K", "\"">>),
    JsonBody(<<"n", "u", "l", "l">>),
    ObjBody(EmptyDict),
    ObjBody("status" :> OkWord),
    ObjBody("status" :> JStr(<<"O", "K">>)),
    ObjBody("status" :> JStr(<<"S", "u", "c", "c", "e", "s", "s">>)),
    ObjBody("status" :> JStr(<<>>)),
    ObjBody("status" :> ErrorWord),
    ObjBody("status" :> JStr(<<" ", "o", "k">>)),
    ObjBody("status" :> JNull),
    ObjBody("status" :> JBool(TRUE)),
    ObjBody("message" :> OkWord) }

\* answers of one write endpoint: every body with HTTP 200, and the HTTP
\* statuses around the error limit with bodies that read as success
WriteResponses ==
  {Timeout}
    \cup {Http(200, b) : b \in WriteBodies}
    \cup {Http(st, b) : st \in {399, 400, 500},
                        b \in {TextBody(<<"O", "K">>), ObjBody("status" :> OkWord)}}

\* answers of the three PWM endpoints to one set_pwm_index call
PwmAnswers ==
  { <<OkText, Timeout, Timeout>>,
    <<Http500, OkText, Timeout>>,
    <<Http500, JsonError, OkText>>,
    <<Timeout, Http500, Http(200, ObjBody("status" :> OkWord))>>,
    <<JsonError, Timeout, Http500>>,
    <<Timeout, Http500, JsonError>> }

\* percentages callers pass to the PWM writes
PwmInputs == {-5, 50, 150}

\* set_pwm_index calls <<idx, v, answers>>: every fan and percentage with
\* the fallback answers, and every single answer for one fan and percentage
PwmCalls ==
  {<<idx, v, rs>> : idx \in Indices, v \in PwmInputs, rs \in PwmAnswers}
    \cup {<<1, 50, <<r, Timeout, Timeout>>>> : r \in WriteResponses}

\* answers to the single-endpoint writes set_pwm_all and set_rpm_index
SingleWriteResponses == {Timeout, OkText, Http500, JsonError, Http(200, ObjBody(EmptyDict))}

NextApi ==
  \/ \E r1 \in ApiStatusResponses, r2 \in ApiLegacyResponses : GetStatusAll(<<r1, r2>>)
  \/ \E c \in PwmCalls : SetPwmIndex(c[1], c[2], c[3])
  \/ \E v \in PwmInputs, r \in SingleWriteResponses : SetPwmAll(v, r)
  \/ \E idx \in Indices \cup {2}, r \in SingleWriteResponses : SetRpmIndex(idx, r)
  \/ \E en \in BOOLEAN, r \in SingleWriteResponses : LedSet(en, r)
  \/ \E en \in BOOLEAN, r \in SingleWriteResponses : SetVoltage12v(en, r)

\* the client of a device set up with the default options
InitApi == Init /\ min_pwm = 0

SpecApi == InitApi /\ [][NextApi]_vars

\* --------------------------------------------- a device with odd answers
\* status answers with a negative rpm and a text that is no number, with
\* rpm values above 0, and none
RangeMultiResponses ==
  { Timeout,
    Http(200, ObjBody(("0" :> JNum(-5)) @@ ("2" :> JStr(<<"x">>)))),
    Http(200, RpmPayload(1200, 0)) }

\* legacy status answers: negative rpm and pwm, a pwm above 100
RangeLegacyResponses ==
  { Http(200, ObjBody(("rpm" :> JNum(-7)) @@ ("pwm" :> JNum(-20)))),
    Http(200, NestedBody("status" :> OkWord, ("rpm" :> JStr(<<"0">>)) @@ ("pwm" :> JNum(150)))) }

\* percentages passed by callers: below 0, above 100
RangeInputs == {-5, 150}

NextRange ==
  \/ \E r1 \in RangeMultiResponses, r2 \in RangeLegacyResponses : PollStatus(<<r1, r2>>)
  \/ \E r \in {Timeout, OkText} : PollFinish(r)
  \/ \E v \in RangeInputs, rs \in PollWriteAnswers : SetPwmIndex(1, v, rs)
  \/ \E v \in RangeInputs : SetPwmAll(v, OkText)

SpecRange == InitApi /\ [][NextRange]_vars

\* -------------------------------------------- the temperature controller
\* texts of the options
SensorName == <<"s">>
CurveHold == <<"4", "5", "=", "2", "5", ",", "6", "5", "=", "5", "5", ",", "7", "0", "=", "1",
               "0", "0">>
CurveOff == <<"4", "9", "=", "0", ",", "5", "1", "=", "7", "0">>
CurveJunk == <<"x", "=", "3", ",", "5", "0">>

\* the options under "fans" of the controller's fan
FanOptions(d) == "fans" :> (FanKey :> d)

\* options of the entry (options_flow.py ranges; min_pwm_calibrated is
\* written by the calibration service, profiles by the save service):
\*   a calibrated fan with its own curve, the shortest window, no profile;
\*   a calibrated fan with a custom profile whose curve switches the fan
\*     off and has no deadband, beside a global and a per-fan curve;
\*   the built-in profile "aggressive" on a fan without a calibration;
\*   a calibrated fan whose minimum was set back to 0;
\*   a curve text without a point
HoldOptions ==
  ("temp_integrate_seconds" :> 5) @@ ("temp_update_min_interval" :> 6)
    @@ ("temp_deadband_pct" :> 3)
    @@ FanOptions(("min_pwm" :> 20) @@ ("min_pwm_calibrated" :> TRUE)
                    @@ ("temp_entity" :> SensorName) @@ ("temp_curve" :> CurveHold))
OffOptions ==
  ("temp_curve" :> CurveJunk) @@ ("temp_entity" :> <<" ", "s", " ">>) @@ ("min_pwm" :> 10)
    @@ ("profiles" :> ("silent" :> ProfileData(CurveOff, 5, 6, 0)))
    @@ FanOptions(("profile" :> "silent") @@ ("min_pwm" :> 40) @@ ("min_pwm_calibrated" :> TRUE)
                    @@ ("temp_curve" :> CurveHold))
TempOptionSamples ==
  { HoldOptions,
    OffOptions,
    ("min_pwm" :> 30) @@ ("temp_entity" :> SensorName)
      @@ FanOptions(("profile" :> "aggressive") @@ ("temp_curve" :> CurveHold)),
    ("min_pwm" :> 20) @@ ("temp_entity" :> SensorName) @@ ("temp_curve" :> CurveHold)
      @@ FanOptions(("min_pwm" :> 0) @@ ("min_pwm_calibrated" :> TRUE)),
    ("temp_curve" :> CurveJunk)
      @@ FanOptions(("min_pwm" :> 20) @@ ("min_pwm_calibrated" :> TRUE)
                      @@ ("temp_entity" :> SensorName)) }

\* readings the temperature entity changes to
SensorEvents == {Some(<<"4", "9">>), Some(<<"5", "1">>)}

\* states of the temperature entity when apply() looks it up: none, a
\* placeholder, a reading
SensorStates == {NoneVal, Some(UnavailableWord), Some(<<"4", "9">>)}

\* answers of the PWM endpoints to a write of the controller
TempWriteAnswers == {<<OkText, Timeout, Timeout>>, <<Timeout, Http500, JsonError>>}

\* the device and the controller of fan FanIndex after async_setup_entry
\* with the options opts
InitWith(opts) ==
  /\ InitDevice(opts)
  /\ InitController(opts)
  /\ applied = NoApplied
  /\ InitCoordinator

\* a controller whose gate is open, its temperature entity and the device
InitTemp == \E o \in {HoldOptions, OffOptions} : InitWith(o)

NextTemp ==
  \/ \E trigger \in ApplyTriggers : ApplyStart(trigger, Some(UnavailableWord))
  \/ \E c \in ApplyTriggers, rs \in TempWriteAnswers : ApplyWrite(c, rs)
  \/ \E c \in ApplyTriggers : ApplyFinish(c)
  \/ \E st \in SensorEvents : TempStateChange(SensorName, st)
  \/ Tick

SpecTemp == InitTemp /\ [][NextTemp]_vars

\* a controller while the options of its entry change; the temperature
\* entity keeps its state
InitGate == \E o \in TempOptionSamples : InitWith(o)

NextGate ==
  \/ \E st \in SensorStates : ApplyStart("periodic", st)
  \/ \E rs \in TempWriteAnswers : ApplyWrite("periodic", rs)
  \/ ApplyFinish("periodic")
  \/ Tick
  \/ \E o \in TempOptionSamples : SetOptions(o)
  \/ ClearTempControl

SpecGate == InitGate /\ [][NextGate]_vars

\* -------------------------------------------------- the sample window alone
\* readings the temperature entity changes to
WindowEvents == {Some(<<"1", "0">>), Some(<<"2", "0">>)}

\* seconds between two steps of the window
WindowSteps == {1, 5}

\* integration windows asked for: below the floor, the floor, above it
WindowSeconds == {3, 5, 10}

NextWindow ==
  \/ \E st \in WindowEvents : TempStateChange(SensorName, st)
  \/ \E d \in WindowSteps : Elapse(d)
  \/ \E w \in WindowSeconds : AveragedTemp(w)

SpecWindow == InitWith(HoldOptions) /\ [][NextWindow]_vars

\* ------------------------------------------- __init__.py, svc_calibrate_min
\* line 209, range(from_pct, to_pct + 1, step): pct is a value of the range
InRange(pct, stop, step) == IF step > 0 THEN pct < stop ELSE pct > stop

\* variant: the threshold has to be exceeded
ReachedAbove(rpm, rpm_threshold) == rpm > rpm_threshold

\* line 215
Reached(rpm, rpm_threshold) == rpm >= rpm_threshold

\* line 220
CalibratedMin(found, margin) == Max(0, Min(100, found + margin))

\* variant: a sweep that found nothing stores an uncalibrated minimum of 0
CalibrationResultAlways(opts, found, margin) ==
  UpdateFanOptions(opts,
    ("min_pwm" :> IF found = NoneVal THEN 0 ELSE CalibratedMin(found[1], margin))
      @@ ("min_pwm_calibrated" :> (found # NoneVal)))

\* lines 219-232: the options after the sweep; found is none or the value
\* the sweep stopped at
CalibrationResult(opts, found, margin) ==
  IF found # NoneVal
  THEN UpdateFanOptions(opts,
         ("min_pwm" :> CalibratedMin(found[1], margin)) @@ ("min_pwm_calibrated" :> TRUE))
  ELSE opts

\* what a calibration step reports
CalibrationStep(outcome, c, rpm) ==
  [op |-> "calibrate", trigger |-> "", outcome |-> outcome, pct |-> c.pct, rpm |-> rpm,
   writes |-> c.writes, from_pct |-> c.from_pct, to_pct |-> c.to_pct, step |-> c.step,
   rpm_threshold |-> c.rpm_threshold, margin |-> c.margin]

\* lines 193-209: the service is called with the data call; a step of 0
\* makes range() raise, an empty range ends with the warning of line 230
CalibrateStart(call) ==
  LET c == [pc |-> "write", pct |-> call.from_pct, from_pct |-> call.from_pct,
            to_pct |-> call.to_pct, step |-> call.step, rpm_threshold |-> call.rpm_threshold, margin |-> call.margin, writes |-> 0]
  IN /\ calib.pc = "idle"
     /\ IF call.step = 0
        THEN /\ applied' = CalibrationStep("raised", c, 0)
             /\ UNCHANGED <<calib, options>>
        ELSE IF ~InRange(call.from_pct, call.to_pct + 1, call.step)
        THEN /\ applied' = CalibrationStep("warning", c, 0)
             /\ options' = CalibrationResult(options, NoneVal, call.margin)
             /\ UNCHANGED calib
        ELSE /\ applied' = CalibrationStep("started", c, 0)
             /\ calib' = c
             /\ UNCHANGED options
     /\ ret' = NoRet
     /\ fired' = {}
     /\ UNCHANGED <<apiVars, tunables, coordVars, poll, temp_buf, state, subscribed,
                    now, inflight, last_written, tick>>

\* line 210: the sweep writes its next value; an error of the write leaves
\* the service
CalibrateWrite(rs) ==
  /\ calib.pc = "write"
  /\ SetPwmIndexCall(FanIndex, calib.pct, rs)
  /\ IF SetPwmIndexOutcome(rs).ok
     THEN /\ calib' = [calib EXCEPT !.pc = "read", !.writes = @ + 1]
          /\ applied' = CalibrationStep("written", calib', 0)
     ELSE /\ calib' = NoCalibration
          /\ applied' = CalibrationStep("raised", calib, 0)
  /\ UNCHANGED <<options, temp_buf, state, subscribed, now, inflight, last_written, tick>>

\* lines 211-232: after the sleep and the refresh the coordinator data hold
\* rpm for the fan; the sweep stops there, steps on, or ends with a warning
CalibrateRead(rpm) ==
  /\ calib.pc = "read"
  /\ IF Reached(rpm, calib.rpm_threshold)
     THEN /\ options' = CalibrationResult(options, Some(calib.pct), calib.margin)
          /\ calib' = NoCalibration
          /\ applied' = CalibrationStep("calibrated", calib, rpm)
     ELSE IF InRange(calib.pct + calib.step, calib.to_pct + 1, calib.step)
     THEN /\ calib' = [calib EXCEPT !.pc = "write", !.pct = @ + calib.step]
          /\ applied' = CalibrationStep("stepped", calib, rpm)
          /\ UNCHANGED options
     ELSE /\ options' = CalibrationResult(options, NoneVal, calib.margin)
          /\ calib' = NoCalibration
          /\ applied' = CalibrationStep("warning", calib, rpm)
  /\ ret' = NoRet
  /\ fired' = {}
  /\ UNCHANGED <<apiVars, tunables, coordVars, poll, temp_buf, state, subscribed, now, inflight,
                 last_written, tick>>

\* service data of calibrate_min (no schema is registered): a sweep of
\* three values, one of a single value near 100, one with a negative
\* margin, an empty range, a step of 0
CalibrationData(from_pct, to_pct, step, rpm_threshold, margin) ==
  [from_pct |-> from_pct, to_pct |-> to_pct, step |-> step,
   rpm_threshold |-> rpm_threshold, margin |-> margin]
CalibrationCalls ==
  { CalibrationData(10, 20, 5, 100, 5),
    CalibrationData(98, 100, 5, 100, 5),
    CalibrationData(10, 13, 2, 100, 0 - 20),
    CalibrationData(20, 10, 5, 100, 5),
    CalibrationData(10, 20, 0, 100, 5) }

\* rpm the coordinator holds after a refresh
CalibrationRpms == {99, 100}

\* options of a fan that was never calibrated, beside a second fan
UncalibratedOptions ==
  ("min_pwm" :> 30) @@ ("temp_entity" :> SensorName) @@ ("temp_update_min_interval" :> 6)
    @@ ("fans" :> ((FanKey :> ("temp_curve" :> CurveHold))
                     @@ ("1" :> (("min_pwm" :> 15) @@ ("min_pwm_calibrated" :> FALSE)))))

InitCal == \E o \in {HoldOptions, UncalibratedOptions} : InitWith(o)

NextCal ==
  \/ \E call \in CalibrationCalls : CalibrateStart(call)
  \/ \E rs \in TempWriteAnswers : CalibrateWrite(rs)
  \/ \E rpm \in CalibrationRpms : CalibrateRead(rpm)
  \/ ApplyStart("periodic", Some(<<"4", "9">>))
  \/ \E rs \in TempWriteAnswers : ApplyWrite("periodic", rs)
  \/ ApplyFinish("periodic")

SpecCal == InitCal /\ [][NextCal]_vars

\* ------------------------------- __init__.py, svc_save_profile / apply_profile
\* the profile names of the service calls, as texts
ProfileSpelling ==
  ("" :> <<>>) @@ ("quiet" :> <<"q", "u", "i", "e", "t">>)
    @@ ("night" :> <<"n", "i", "g", "h", "t">>)
    @@ ("silent" :> <<"s", "i", "l", "e", "n", "t">>)

\* lines 288 and 321: call.data.get("profile", "").strip()
StrippedName(text) == CHOOSE n \in DOMAIN ProfileSpelling : ProfileSpelling[n] = Strip(text)

\* variant: no name is taken for a built-in one
IsBuiltInNever(name) == FALSE

\* line 332
IsBuiltIn(name) == name \in DOMAIN DEFAULT_PROFILES

\* lines 349-359, "fan_opts.get(k) or opts.get(k, default)": a per-fan
\* value that is missing, empty or 0 gives way to the global one
OrText(fo, opts, k, default) ==
  IF Get(fo, k, <<>>) # <<>> THEN fo[k] ELSE Get(opts, k, default)
OrInt(fo, opts, k, default) ==
  IF Get(fo, k, 0) # 0 THEN fo[k] ELSE Get(opts, k, default)

\* lines 348-360: the profile built from the current settings of the fan
CurrentProfileData(opts) ==
  LET fo == FanOptsOf(opts)
  IN ProfileData(OrText(fo, opts, "temp_curve", <<>>),
                 OrInt(fo, opts, "temp_integrate_seconds", DefaultIntegrateSeconds),
                 OrInt(fo, opts, "temp_update_min_interval", DefaultMinInterval),
                 OrInt(fo, opts, "temp_deadband_pct", DefaultDeadband))

\* lines 318-369: the save_profile service is called with the name text
SaveProfile(text) ==
  LET name == StrippedName(text)
      call == [op |-> "save_profile", trigger |-> "", outcome |-> "", name |-> name]
  IN /\ IF name = ""
        THEN /\ applied' = [call EXCEPT !.outcome = "no_name"]
             /\ UNCHANGED options
        ELSE IF IsBuiltIn(name)
        THEN /\ applied' = [call EXCEPT !.outcome = "rejected"]
             /\ UNCHANGED options
        ELSE /\ applied' = [call EXCEPT !.outcome = "saved"]
             /\ options' = Put(options, "profiles",
                               Put(Get(options, "profiles", EmptyDict), name,
                                   CurrentProfileData(options)))
     /\ ret' = NoRet
     /\ fired' = {}
     /\ UNCHANGED <<apiVars, tunables, coordVars, poll, temp_buf, state, subscribed, calib, now,
                    inflight, last_written, tick>>

\* lines 285-316: the apply_profile service is called with the name text;
\* a known name is stored for the fan and apply("profile_applied") runs on
\* the new options
ApplyProfile(text, sensor) ==
  LET name == StrippedName(text)
  IN IF name \notin DOMAIN Get(options, "profiles", EmptyDict) /\ name \notin DOMAIN DEFAULT_PROFILES
     THEN /\ applied' = [op |-> "apply_profile", trigger |-> "", outcome |-> "unknown",
                         name |-> name]
          /\ ret' = NoRet
          /\ fired' = {}
          /\ UNCHANGED <<apiVars, tunables, coordVars, poll, options, temp_buf, state, subscribed,
                         calib, now, inflight, last_written, tick>>
     ELSE /\ options' = UpdateFanOptions(options, "profile" :> name)
          /\ ApplyFrom(options', "profile_applied", sensor)
          /\ UNCHANGED tick

\* name texts of the service calls: a built-in name in blanks, two custom
\* names, blanks only
ProfileTexts ==
  { <<" ", "q", "u", "i", "e", "t", " ">>, ProfileSpelling["night"], ProfileSpelling["silent"],
    <<" ">> }

NextProfile ==
  \/ \E text \in ProfileTexts : SaveProfile(text)
  \/ \E text \in ProfileTexts, st \in SensorStates : ApplyProfile(text, st)
  \/ \E rs \in TempWriteAnswers : ApplyWrite("profile_applied", rs)
  \/ ApplyFinish("profile_applied")
  \/ \E st \in SensorStates : ApplyStart("periodic", st)
  \/ \E rs \in TempWriteAnswers : ApplyWrite("periodic", rs)
  \/ ApplyFinish("periodic")

\* options without a profile: a per-fan curve and minimum beside a global
\* curve, minimum and temperature entity
OverrideOptions ==
  ("temp_curve" :> CurveOff) @@ ("temp_entity" :> SensorName) @@ ("min_pwm" :> 10)
    @@ ("temp_deadband_pct" :> 0)
    @@ FanOptions(("min_pwm" :> 20) @@ ("min_pwm_calibrated" :> TRUE)
                    @@ ("temp_curve" :> CurveHold))

InitProfile == \E o \in TempOptionSamples \cup {OverrideOptions} : InitWith(o)

SpecProfile == InitProfile /\ [][NextProfile]_vars

\* ------------------------------------------ the periodic callback, two fans
\* what the controller of fan OtherFan writes in its apply(): nothing, a value
OtherWrites == {NoneVal, Some(60)}

\* a device with two fans and the controller of fan FanIndex after
\* async_setup_entry
InitTick ==
  \E o \in {HoldOptions, OffOptions} :
    /\ fan_count = Cardinality(TickControllers)
    /\ last_pwm_by_index = EmptyDict
    /\ min_pwm = Get(o, "min_pwm", 0)
    /\ failure_threshold = Get(o, "failure_threshold", DefaultFailureThreshold)
    /\ stall_consecutive = Get(o, "stall_consecutive", DefaultStallConsecutive)
    /\ InitController(o)
    /\ applied = NoApplied
    /\ InitCoordinator

NextTick ==
  \/ \E st \in SensorStates : PeriodicTempControl(st)
  \/ \E rs \in TempWriteAnswers : PeriodicWrite(rs)
  \/ PeriodicFinish
  \/ \E w \in OtherWrites, rs \in TempWriteAnswers : PeriodicNext(w, rs)
  \/ Tick

SpecTick == InitTick /\ [][NextTick]_vars

\* ------------------------------------- the controller while time advances
\* the temperature entity holds a reading whenever apply() looks it up
LiveReadings == {Some(<<"4", "9">>), Some(<<"5", "1">>)}

\* the first PWM endpoint accepts every write
LiveWriteAnswers == {<<OkText, Timeout, Timeout>>}

\* the periodic calls of apply(), the samples the temperature entity adds
\* to the window, and the clock
NextLive ==
  \/ \E st \in LiveReadings : ApplyStart("periodic", st)
  \/ \E rs \in LiveWriteAnswers : ApplyWrite("periodic", rs)
  \/ ApplyFinish("periodic")
  \/ \E st \in SensorEvents : TempStateChange(SensorName, st)
  \/ Tick

\* __init__.py lines 102-104: async_track_time_interval calls the periodic
\* callback again and again.  This is weak fairness of the periodic call,
\* written out with its enabling condition: no periodic call is suspended,
\* and the step before was not itself a periodic call that returned (which
\* a further call would only repeat)
PeriodicIdle ==
  /\ inflight["periodic"] = NoneVal
  /\ ~(applied.op = "start" /\ applied.trigger = "periodic")
PeriodicFair ==
  \/ []<>(~PeriodicIdle)
  \/ []<><<\E st \in LiveReadings : ApplyStart("periodic", st)>>_vars

\* the event loop resumes a suspended call when its request is answered;
\* the clock advances
LiveFairness ==
  /\ PeriodicFair
  /\ WF_vars(\E rs \in LiveWriteAnswers : ApplyWrite("periodic", rs))
  /\ WF_vars(ApplyFinish("periodic"))
  /\ WF_vars(Tick)

SpecLive == InitTemp /\ [][NextLive]_vars /\ LiveFairness

\* ---------------------------------------------------------- fan.py, OpenFan
\* lines 96-100: the percentage async_set_percentage writes
EntityPercentage(opts, percentage) ==
  LET floor == Get(FanOptsOf(opts), "min_pwm", Get(opts, "min_pwm", 0))
  IN IF percentage > 0 THEN Max(floor, percentage) ELSE percentage

\* variant: the refresh is requested whatever the write did
RefreshRequestedAlways(ok) == TRUE

\* lines 102-103 and 111-112: the refresh request follows the awaited
\* write; an error raised by the write leaves the handler before it
RefreshRequested(ok) == ok

\* lines 95-103: the fan entity sets a percentage
AsyncSetPercentage(percentage, rs) ==
  /\ SetPwmIndexCall(FanIndex, EntityPercentage(options, percentage), rs)
  /\ applied' = [op |-> "set_percentage", trigger |-> "fan", outcome |-> "",
                 refresh |-> RefreshRequested(SetPwmIndexOutcome(rs).ok)]
  /\ UNCHANGED <<options, temp_buf, state, subscribed, calib, now, inflight, last_written, tick>>

\* lines 110-112: the fan entity turns the fan off
AsyncTurnOff(rs) ==
  /\ SetPwmIndexCall(FanIndex, 0, rs)
  /\ applied' = [op |-> "turn_off", trigger |-> "fan", outcome |-> "",
                 refresh |-> RefreshRequested(SetPwmIndexOutcome(rs).ok)]
  /\ UNCHANGED <<options, temp_buf, state, subscribed, calib, now, inflight, last_written, tick>>

\* percentages asked of the fan entity: off, below the minimum, above it
EntityPercentages == {0, 10, 50}

NextFan ==
  \/ \E pct \in EntityPercentages, rs \in TempWriteAnswers : AsyncSetPercentage(pct, rs)
  \/ \E rs \in TempWriteAnswers : AsyncTurnOff(rs)
  \/ \E st \in SensorStates : ApplyStart("periodic", st)
  \/ \E rs \in TempWriteAnswers : ApplyWrite("periodic", rs)
  \/ ApplyFinish("periodic")
  \/ Tick

SpecFan == InitTemp /\ [][NextFan]_vars

\* --------------------------- manual writes beside a steady temperature
\* the temperature entity keeps one reading
SteadyReading == Some(<<"5", "1">>)

\* the fan entity writes by hand, the periodic callback applies the
\* controller, the device accepts every write, the clock advances
NextManual ==
  \/ \E pct \in EntityPercentages, rs \in LiveWriteAnswers : AsyncSetPercentage(pct, rs)
  \/ \E rs \in LiveWriteAnswers : AsyncTurnOff(rs)
  \/ ApplyStart("periodic", SteadyReading)
  \/ \E rs \in LiveWriteAnswers : ApplyWrite("periodic", rs)
  \/ ApplyFinish("periodic")
  \/ Tick

\* weak fairness of the periodic call (__init__.py lines 102-104), written
\* out as in PeriodicFair, of the resumption of its suspended call and of
\* the clock; the user is not obliged to write
ManualFairness ==
  /\ \/ []<>(~PeriodicIdle)
     \/ []<><<ApplyStart("periodic", SteadyReading)>>_vars
  /\ WF_vars(\E rs \in LiveWriteAnswers : ApplyWrite("periodic", rs))
  /\ WF_vars(ApplyFinish("periodic"))
  /\ WF_vars(Tick)

SpecManual == InitTemp /\ [][NextManual]_vars /\ ManualFairness

\* -------------------------------------------- the temperature subscription
\* a second temperature entity
OtherSensor == <<"t">>

\* references a subscription is asked for: none, the entity, another one
SubscribeSamples == {<<>>, SensorName, OtherSensor}

\* new states of a state change event: the entity removed, an empty state,
\* the placeholder words, a text that is no number, two readings
EventStates ==
  {NoneVal, Some(<<>>), Some(UnknownWord), Some(UnavailableWord), Some(<<"o", "n">>)}
    \cup SensorEvents

NextSub ==
  \/ \E te \in SubscribeSamples : SubscribeTempEntity(te)
  \/ Unsubscribe
  \/ ClearTempControl
  \/ \E ent \in {SensorName, OtherSensor}, st \in EventStates : TempStateChange(ent, st)
  \/ Tick

SpecSub == InitWith(HoldOptions) /\ [][NextSub]_vars

\* ------------------------------------------------ the curve evaluation alone
\* points of curves: the hold curve and a second point at 65 with pwm 0
CurvePoints == {<<45, 25>>, <<65, 55>>, <<70, 100>>, <<65, 0>>}

\* parsed curves of up to MaxPoints points, sorted as parse_curve sorts them
CurveSamples ==
  {SortByTemp(s) : s \in UNION {[1..n -> CurvePoints] : n \in 1..MaxPoints}}

\* averaged temperatures: below, at, between and above the points, with
\* halves and a third
CurveTemps ==
  {Temp(n, 2) : n \in {88, 90, 100, 109, 110, 130, 140, 150}} \cup {Temp(155, 3)}

\* a curve and two temperatures to evaluate it at
InitCurve ==
  /\ InitDevice(EmptyDict)
  /\ InitController(EmptyDict)
  /\ InitCoordinator
  /\ \E c \in CurveSamples, a \in CurveTemps, b \in CurveTemps :
       applied = [op |-> "input", trigger |-> "", outcome |-> "",
                  pts |-> c, temps |-> <<a, b>>, values |-> <<>>]

\* lines 226-240 on the curve and each of the two temperatures
EvaluateCurve ==
  /\ applied.op = "input"
  /\ applied' = [applied EXCEPT !.op = "evaluate",
                                !.values = <<CurveTarget(applied.pts, applied.temps[1]),
                                             CurveTarget(applied.pts, applied.temps[2])>>]
  /\ UNCHANGED <<apiVars, tunables, coordVars, poll, ret, fired, options, temp_buf, state,
                 subscribed, calib, now, inflight, last_written, tick>>

NextCurve == EvaluateCurve

SpecCurve == InitCurve /\ [][NextCurve]_vars


\* ================================================================ claims
\* the stall counter and the published flag of fan i, as consumers see them
CountOf(i) == Get(stall_by_index, i, 0)
FlagOf(i) == CountOf(i) >= stall_consecutive

\* a step in which a poll returns its snapshot
PollReturns == poll.pc = "led" /\ poll'.pc = "idle" /\ ret'.op = "poll" /\ ret'.ok

\* C1: forcedUnavailable is true exactly when the number of consecutive
\* failed polls since the last successful poll is >= failureThreshold; once
\* getStatusAll succeeded and after a poll that returned, the counter is 0
\* and the flag is clear.
C1_ForcedIffThreshold ==
  /\ forced_unavailable <=> (consecutive_failures >= failure_threshold)
  /\ (poll.pc = "led" \/ (ret.op = "poll" /\ ret.ok))
       => (consecutive_failures = 0 /\ ~forced_unavailable)
  /\ (ret.op = "poll" /\ ~ret.ok) => consecutive_failures >= 1

C1_Witness ==
  /\ failure_threshold = 3
  /\ consecutive_failures = 3
  /\ forced_unavailable

\* C2: the stall notification is edge-triggered: a poll that returns fires
\* the notification of fan i exactly when the fan's stalled flag is true
\* after the poll and was false after the fan's previous poll; no other
\* step fires one.
C2_StallEdgeTriggered ==
  [][ /\ PollReturns =>
           \A i \in DOMAIN poll.rpm_by_index : (i \in fired') <=> (FlagOf(i)' /\ ~FlagOf(i))
      /\ fired' \subseteq DOMAIN poll.rpm_by_index
      /\ ~PollReturns => fired' = {} ]_vars

C2_Witness ==
  /\ 0 \in fired
  /\ ret.op = "poll"
  /\ FlagOf(0)
  /\ CountOf(0) = stall_consecutive

\* C3: in every poll that returns, for every fan of the status response:
\* stalledNow = (cached PWM > minPwm) and (rpm = 0); the counter becomes
\* previous + 1 if stalledNow and 0 otherwise; the published stalled field
\* equals (counter >= stallConsecutive).
C3_StallClassification ==
  [][ PollReturns =>
        \A i \in DOMAIN poll.rpm_by_index :
          LET stalledNow == Get(last_pwm_by_index, i, 0) > min_pwm /\ poll.rpm_by_index[i] = 0
          IN /\ stall_by_index'[i] = IF stalledNow THEN CountOf(i) + 1 ELSE 0
             /\ i \in DOMAIN data'.fans
             /\ data'.fans[i].stalled = (stall_by_index'[i] >= stall_consecutive) ]_vars

C3_Witness ==
  /\ ret.op = "poll" /\ ret.ok
  /\ 1 \in DOMAIN data.fans
  /\ data.fans[1].stalled
  /\ stall_by_index[1] > stall_consecutive
  /\ 0 \in DOMAIN data.fans
  /\ ~data.fans[0].stalled

\* C4: when getStatusAll fails during a poll, the poll raises UpdateFailed,
\* the failure counter grows by exactly one, lastError is set and the
\* published snapshot stays the one published before.
C4_FailedPollKeepsSnapshot ==
  [][ (ret'.op = "poll" /\ ~ret'.ok) =>
        /\ ~last_update_success'
        /\ consecutive_failures' = consecutive_failures + 1
        /\ last_error' = ret'.exc
        /\ last_error' # NoExc
        /\ data' = data ]_vars

C4_Witness ==
  /\ ret.op = "poll" /\ ~ret.ok
  /\ data.published
  /\ DOMAIN data.fans = {0, 1}
  /\ consecutive_failures = 2

\* the LED/12V fetch of the poll that just returned failed
LedFetchFailed ==
  /\ ret.op = "poll" /\ ret.ok
  /\ LET r == ret.resps[1]
     IN r.kind = "timeout" \/ r.status >= 400 \/ r.body.form # "object"

\* C5: if getStatusAll succeeds but the LED/12V fetch fails, the poll still
\* returns: the snapshot has ledOn = false and is12V = false, the failure
\* counter is 0, forcedUnavailable is false and every fan of the status
\* response is classified.
C5_LedFailureTolerated ==
  LedFetchFailed =>
    /\ last_update_success
    /\ data.published
    /\ ~data.led /\ ~data.is_12v
    /\ consecutive_failures = 0
    /\ ~forced_unavailable
    /\ DOMAIN data.fans # {}
    /\ \A i \in DOMAIN data.fans :
         /\ i \in DOMAIN stall_by_index
         /\ data.fans[i].stalled = FlagOf(i)

C5_Witness ==
  /\ LedFetchFailed
  /\ \E i \in DOMAIN data.fans : data.fans[i].stalled


\* a status answer get_status_all accepts: no HTTP error and a JSON object
WellFormed(r) == r.kind = "http" /\ r.status < 400 /\ r.body.form = "object"

\* C6: getStatusAll requests the multi-fan endpoint first and the legacy
\* endpoint second; it returns the result of the first endpoint with a
\* well-formed answer without requesting a later one, and when both fail it
\* raises the error of the legacy attempt.
C6_StatusFallback ==
  ret.op = "get_status_all" =>
    LET rs == ret.resps
        n == Len(rs)
    IN /\ n \in {1, 2}
       /\ ret.reqs = SubSeq(<<"/api/v0/fan/status", "/api/v0/fan/0/status">>, 1, n)
       /\ ret.ok <=> WellFormed(rs[n])
       /\ \A k \in 1..(n - 1) : ~WellFormed(rs[k])
       /\ ret.ok =>
            /\ ret.exc = NoExc
            /\ ret.result =
                 IF n = 1 /\ DOMAIN ParseMultiFanPayload(rs[1].body) # {}
                 THEN ParseMultiFanPayload(rs[1].body)
                 ELSE (0 :> ParseStatusPayload(rs[n].body)[1])
       /\ ~ret.ok =>
            /\ n = 2
            /\ ret.exc.path = "/api/v0/fan/0/status"
            /\ ret.exc.kind = IF rs[2].kind = "timeout" THEN "timeout"
                              ELSE IF rs[2].status >= 400 THEN "http" ELSE "nonjson"

C6_Witness ==
  /\ ret.op = "get_status_all" /\ ~ret.ok
  /\ ret.resps[1].kind = "http" /\ ret.resps[1].status = 500
  /\ ret.resps[2].kind = "timeout"
  /\ ret.exc.kind = "timeout"

\* C7: setPwmIndex tries /fan/{i}/pwm, /fan/{i}/set, /fan/set in that
\* order; it succeeds iff one of them answers with HTTP status < 400 and a
\* recognized success body, it issues no request after the first success,
\* and an earlier failure does not prevent success through a later endpoint.
C7_PwmFallback ==
  ret.op = "set_pwm_index" =>
    LET rs == ret.resps
        n == Len(rs)
    IN /\ n \in 1..3
       /\ ret.reqs = SubSeq(<<"/api/v0/fan/{idx}/pwm", "/api/v0/fan/{idx}/set",
                              "/api/v0/fan/set">>, 1, n)
       /\ ret.ok <=> \E k \in 1..n : IsWriteOk(rs[k])
       /\ \A k \in 1..(n - 1) : ~IsWriteOk(rs[k])
       /\ ~ret.ok => n = 3

C7_Witness ==
  /\ ret.op = "set_pwm_index" /\ ret.ok
  /\ Len(ret.resps) = 2
  /\ ret.resps[1].kind = "http" /\ ret.resps[1].status = 500
  /\ ret.resps[2] = Http(200, TextBody(<<"O", "K">>))

\* C8: after a successful setPwmIndex(i, v) the cache entry of fan i is v
\* clamped to [0,100] and no other entry changed; when all three endpoints
\* fail the call raises the last error and leaves the cache and the
\* remembered fan count unchanged.
C8_PwmCacheFrame ==
  [][ ret'.op = "set_pwm_index" =>
        LET i == ret'.idx
            v == ret'.arg
            clamped == IF v < 0 THEN 0 ELSE IF v > 100 THEN 100 ELSE v
            last == ret'.resps[3]
        IN IF ret'.ok
           THEN /\ DOMAIN last_pwm_by_index' = (DOMAIN last_pwm_by_index) \cup {i}
                /\ last_pwm_by_index'[i] = clamped
                /\ \A j \in (DOMAIN last_pwm_by_index) \ {i} :
                     last_pwm_by_index'[j] = last_pwm_by_index[j]
           ELSE /\ last_pwm_by_index' = last_pwm_by_index
                /\ fan_count' = fan_count
                /\ ret'.exc.path = "/api/v0/fan/set"
                /\ ret'.exc.kind = IF last.kind = "timeout" THEN "timeout" ELSE "bad"
                /\ ret'.exc.status = last.status ]_vars

C8_Witness ==
  /\ ret.op = "set_pwm_index" /\ ret.ok
  /\ ret.idx = 1 /\ ret.arg = 150
  /\ DOMAIN last_pwm_by_index = {0, 1}
  /\ last_pwm_by_index[1] = 100
  /\ last_pwm_by_index[0] = 50

\* C9: the fan count remembered by the client never decreases over
\* getStatusAll, setPwmIndex, setPwmAll and setRpmIndex calls.
C9_FanCountMonotonic == [][fan_count' >= fan_count]_vars

C9_Witness ==
  /\ fan_count = 3
  /\ ret.op = "get_status_all" /\ ret.ok
  /\ DOMAIN ret.result = {0}

\* the success rule for the answer to a write
JsonRecognized(b) ==
  /\ b.form = "object"
  /\ Lower(IF "status" \in DOMAIN b.obj THEN PyStr(b.obj["status"]) ELSE <<>>)
       \in {<<"o", "k">>, <<"s", "u", "c", "c", "e", "s", "s">>, <<>>}
TextRecognized(b) ==
  Upper(Strip(b.text)) \in {<<"O", "K">>, <<"S", "U", "C", "C", "E", "S", "S">>, <<>>}
Recognized(r) ==
  r.kind = "http" /\ r.status < 400 /\ (JsonRecognized(r.body) \/ TextRecognized(r.body))

\* C10: a write answer is recognized as success iff HTTP status < 400 and
\* (the body is a JSON object whose status, lower-cased, is "ok", "success"
\* or "" (missing counts as "") or the body text, trimmed and upper-cased,
\* is "OK", "SUCCESS" or ""): a write returns exactly when its last answer
\* is recognized, and every earlier answer of the call was not; a JSON
\* object with status "error" is not a success.
C10_SuccessRule ==
  ret.op \in {"set_pwm_index", "set_pwm_all", "set_rpm_index"} =>
    LET rs == ret.resps
        n == Len(rs)
    IN /\ n >= 1
       /\ ret.ok <=> Recognized(rs[n])
       /\ \A k \in 1..(n - 1) : ~Recognized(rs[k])
       /\ \A k \in 1..n :
            (rs[k].kind = "http" /\ rs[k].body = ObjBody("status" :> ErrorWord))
              => ~(ret.ok /\ k = n)

C10_Witness ==
  /\ ret.op = "set_pwm_index" /\ ~ret.ok
  /\ ret.resps[1] = Http(200, ObjBody("status" :> JStr(<<" ", "o", "k">>)))

\* C11: ledSet(enabled) and setVoltage12V(enabled) report success only if the
\* HTTP status is below 400 and the body is a recognized success body; an
\* answer below 400 whose body is not recognized makes the call fail.
C11_SwitchSuccessRule ==
  ret.op \in {"led_set", "set_voltage_12v"} =>
    (ret.ok <=> IsWriteOk(ret.resps[1]))

\* the gating condition on the options opts: the minimum is calibrated and
\* above 0, a temperature entity is named and the resolved curve has a point
GateHolds(opts) ==
  LET fo == GetFanOptions(opts)
  IN /\ fo.min_pwm_calibrated
     /\ fo.min_pwm > 0
     /\ fo.temp_entity # <<>>
     /\ parse_curve(fo.temp_curve) # <<>>

\* a step in which an apply() call runs up to its first suspension or return
ApplyRuns == applied'.op = "start"

\* C12: after every apply() call, whatever its trigger and the state before,
\* state.active is true iff the minimum is calibrated and above 0, a
\* temperature entity is configured and the resolved curve is not empty, on
\* the options current at the call; it is false whenever the minimum is not
\* calibrated.
C12_ActiveIffGate ==
  [][ ApplyRuns =>
        /\ state'.active <=> GateHolds(options)
        /\ ~GetFanOptions(options).min_pwm_calibrated => ~state'.active ]_vars

C12_Witness ==
  /\ applied.op = "start" /\ applied.outcome = "gated"
  /\ ~state.active
  /\ ~state.min_pwm_calibrated
  /\ state.temp_entity # <<>>
  /\ parse_curve(state.temp_curve) # <<>>
  /\ state.last_applied_pwm # NoneVal

\* C13: an apply() call whose gate fails returns without an error and
\* without a PWM write; it leaves temp_avg, last_target_pwm,
\* last_applied_pwm, last_apply_ts and the sample window as they were, sets
\* active to false and records the resolved settings.
C13_GatedFrame ==
  [][ (ApplyRuns /\ ~GateHolds(options)) =>
        LET fo == GetFanOptions(options)
        IN /\ applied'.outcome = "gated"
           /\ inflight' = inflight
           /\ last_pwm_by_index' = last_pwm_by_index
           /\ temp_buf' = temp_buf
           /\ state'.temp_avg = state.temp_avg
           /\ state'.last_target_pwm = state.last_target_pwm
           /\ state'.last_applied_pwm = state.last_applied_pwm
           /\ state'.last_apply_ts = state.last_apply_ts
           /\ ~state'.active
           /\ state'.min_pwm = fo.min_pwm
           /\ state'.min_pwm_calibrated = fo.min_pwm_calibrated
           /\ state'.temp_entity = fo.temp_entity
           /\ state'.temp_curve = fo.temp_curve
           /\ state'.profile = fo.profile
           /\ state'.temp_integrate_seconds = fo.temp_integrate_seconds
           /\ state'.temp_update_min_interval = fo.temp_update_min_interval
           /\ state'.temp_deadband_pct = fo.temp_deadband_pct ]_vars

C13_Witness ==
  /\ applied.op = "start" /\ applied.outcome = "gated"
  /\ state.min_pwm_calibrated /\ state.min_pwm > 0
  /\ parse_curve(state.temp_curve) = <<>>
  /\ state.temp_avg # NoneVal
  /\ state.last_applied_pwm # NoneVal
  /\ temp_buf # <<>>

\* a step in which an apply() call computes a target
TargetComputed == ApplyRuns /\ applied'.outcome \in {"deadband", "interval", "issued"}

\* the target that call computed
TargetOfCall ==
  IF applied'.outcome = "issued" THEN inflight'[applied'.trigger][1].target
  ELSE state'.last_target_pwm[1]

\* C14: with last_applied_pwm set, an apply() whose target is closer to it
\* than the deadband issues no PWM write, and a target exactly the deadband
\* away is written once the minimum interval has elapsed.
C14_DeadbandBoundary ==
  [][ (TargetComputed /\ state.last_applied_pwm # NoneVal) =>
        LET fo == GetFanOptions(options)
            diff == Abs(TargetOfCall - state.last_applied_pwm[1])
        IN /\ diff < fo.temp_deadband_pct =>
                /\ applied'.outcome = "deadband"
                /\ inflight' = inflight
                /\ last_pwm_by_index' = last_pwm_by_index
           /\ (diff = fo.temp_deadband_pct
                 /\ now - state.last_apply_ts >= fo.temp_update_min_interval)
                => applied'.outcome = "issued" ]_vars

C14_Witness ==
  /\ applied.op = "start" /\ applied.outcome = "issued"
  /\ state.temp_deadband_pct = 3
  /\ state.last_applied_pwm = Some(31)
  /\ inflight[applied.trigger][1].target = 34

\* C15: an apply() call that starts less than the minimum update interval
\* after last_apply_ts issues no PWM write, also when its target is at
\* least the deadband away from last_applied_pwm.
C15_MinInterval ==
  [][ (TargetComputed
         /\ now - state.last_apply_ts < GetFanOptions(options).temp_update_min_interval)
        => /\ applied'.outcome # "issued"
           /\ inflight' = inflight
           /\ last_pwm_by_index' = last_pwm_by_index ]_vars

C15_Witness ==
  /\ applied.op = "start" /\ applied.outcome = "interval"
  /\ state.last_applied_pwm # NoneVal
  /\ now - state.last_apply_ts < state.temp_update_min_interval
  /\ Abs(state.last_target_pwm[1] - state.last_applied_pwm[1]) >= 40
  /\ Abs(state.last_target_pwm[1] - state.last_applied_pwm[1]) >= state.temp_deadband_pct

\* C16: every value the controller passes to the set-PWM callback is 0,
\* and only when the curve gives 0, or lies between min(min_pwm, 100) and
\* 100: a curve value of 0 stays 0, any other is raised to min_pwm, and the
\* result is kept within 0..100; the write carries that value.
C16_WrittenRange ==
  [][ /\ (ApplyRuns /\ applied'.outcome = "issued") =>
           LET fo == GetFanOptions(options)
               call == inflight'[applied'.trigger][1]
               raw == CurveTarget(parse_curve(fo.temp_curve), call.temp[1])
           IN /\ call.target = 0 <=> raw = 0
              /\ raw # 0 =>
                   /\ call.target >= Min(fo.min_pwm, 100)
                   /\ call.target <= 100
                   /\ call.target = Min(100, Max(fo.min_pwm, raw))
      /\ applied'.op = "write" =>
           /\ ret'.op = "set_pwm_index"
           /\ ret'.idx = FanIndex
           /\ ret'.arg = inflight[applied'.trigger][1].target ]_vars

C16_Witness ==
  /\ inflight["periodic"] # NoneVal
  /\ inflight["periodic"][1].target = 0
  /\ inflight["state_change"] # NoneVal
  /\ inflight["state_change"][1].target = 40
  /\ inflight["state_change"][1].temp = Some(Temp(50, 1))

\* the bookkeeping of one apply() call
BookkeepingOfCall ==
  /\ (ApplyRuns /\ applied'.outcome \in {"deadband", "interval"}) =>
       LET fo == GetFanOptions(options)
           avg == Average(temp_buf')
       IN /\ state'.temp_avg = avg
          /\ state'.last_target_pwm =
               Some(FloorToMin(CurveTarget(parse_curve(fo.temp_curve), avg[1]), fo.min_pwm))
          /\ state'.last_applied_pwm = state.last_applied_pwm
          /\ state'.last_apply_ts = state.last_apply_ts
          /\ last_pwm_by_index' = last_pwm_by_index
  /\ applied'.op = "finish" =>
       LET call == inflight[applied'.trigger][1]
       IN /\ state'.last_applied_pwm = Some(call.target)
          /\ state'.last_target_pwm = Some(call.target)
          /\ state'.last_apply_ts = call.now
          /\ last_written # NoneVal

\* C17: a suppressed apply() updates last_target_pwm and temp_avg and leaves
\* last_applied_pwm and last_apply_ts alone; an apply() whose write
\* succeeded sets last_applied_pwm and last_target_pwm to the written value
\* and last_apply_ts to its time; hence, whenever no call is under way,
\* last_applied_pwm is the value of the controller's most recent successful
\* write, or none if there was none.
C17_LastAppliedIsLastWrite ==
  /\ [][BookkeepingOfCall]_vars
  /\ [](inflight = NoneInFlight => state.last_applied_pwm = last_written)

\* C18: with the curve "45=25,65=55,70=100", min_pwm 20 calibrated and
\* deadband 3, while every apply() sees the average 50 the target is 32 and
\* 32 is written once: no second write of 32 succeeds.
C18_HoldWritesOnce ==
  (GetFanOptions(options).temp_curve = CurveHold /\ state.temp_avg = NoneVal) =>
    /\ \A c \in ApplyTriggers :
         (inflight[c] # NoneVal /\ inflight[c][1].temp = Some(Temp(50, 1)))
           => inflight[c][1].target = 32
    /\ ~(\A c \in ApplyTriggers :
           /\ inflight[c] # NoneVal
           /\ inflight[c][1].pc = "refresh"
           /\ inflight[c][1].temp = Some(Temp(50, 1)))

\* r is an integer nearest to p1 + (p2 - p1) * (temp - t1) / (t2 - t1)
NearestOnSegment(r, p1, p2, t1, t2, temp) ==
  LET d == (t2 - t1) * temp.den
      n == p1 * d + (p2 - p1) * (temp.num - t1 * temp.den)
  IN 2 * Abs(r * d - n) <= d

\* the reference piecewise-linear operator gives r for the curve pts at temp
IsReference(pts, temp, r) ==
  IF TempLe(temp, pts[1][1]) THEN r = pts[1][2]
  ELSE IF TempGe(temp, pts[Len(pts)][1]) THEN r = pts[Len(pts)][2]
  ELSE \E i \in 1..(Len(pts) - 1) :
         /\ pts[i][1] < pts[i + 1][1]
         /\ TempGe(temp, pts[i][1])
         /\ TempLe(temp, pts[i + 1][1])
         /\ NearestOnSegment(r, pts[i][2], pts[i + 1][2], pts[i][1], pts[i + 1][1], temp)

\* C19: for every non-empty curve sorted by temperature the evaluation is
\* the reference piecewise-linear operator: the first pwm at or below the
\* first point, the last pwm at or above the last point, and between two
\* adjacent points the linear interpolation rounded to the nearest integer;
\* the curve [(45,25),(65,55),(70,100)] gives 40 at 55.
C19_CurveIsPiecewiseLinear ==
  applied.op = "evaluate" =>
    \A k \in 1..2 :
      /\ IsReference(applied.pts, applied.temps[k], applied.values[k])
      /\ (applied.pts = <<<<45, 25>>, <<65, 55>>, <<70, 100>>>>
            /\ applied.temps[k] = Temp(55, 1)) => applied.values[k] = 40

C19_Witness ==
  /\ applied.op = "evaluate"
  /\ applied.pts = <<<<45, 25>>, <<65, 55>>, <<70, 100>>>>
  /\ applied.temps = <<Temp(55, 1), Temp(155, 3)>>
  /\ applied.values = <<40, 35>>

\* the pwm values of pts do not decrease along the curve
NonDecreasingPwm(pts) == \A i \in 1..(Len(pts) - 1) : pts[i][2] <= pts[i + 1][2]

\* C20: for every curve whose pwm values do not decrease with the
\* temperature and all temperatures a <= b, the evaluation at a is at most
\* the evaluation at b, rounding included.
C20_CurveMonotonic ==
  (applied.op = "evaluate" /\ NonDecreasingPwm(applied.pts)
     /\ applied.temps[1].num * applied.temps[2].den
          <= applied.temps[2].num * applied.temps[1].den)
    => applied.values[1] <= applied.values[2]

C20_Witness ==
  /\ applied.op = "evaluate"
  /\ applied.pts = <<<<45, 25>>, <<45, 25>>, <<65, 55>>, <<70, 100>>>>
  /\ applied.temps = <<Temp(50, 1), Temp(155, 3)>>
  /\ applied.values = <<32, 35>>

\* C21: when two points of a curve have the same temperature t, with pwm
\* values p1 and p2, the evaluation at t is max(p1, p2), wherever the pair
\* stands in the curve.
C21_DuplicateTemperatureMax ==
  applied.op = "evaluate" =>
    \A k \in 1..2, i \in 1..(Len(applied.pts) - 1) :
      (applied.pts[i][1] = applied.pts[i + 1][1]
         /\ applied.temps[k] = Temp(applied.pts[i][1], 1))
        => applied.values[k] = Max(applied.pts[i][2], applied.pts[i + 1][2])

\* C22: _averaged_temp(now, window) removes exactly the samples older than
\* now - max(5, window), keeping a sample at the cutoff, and returns the
\* mean of the samples left, or none when none is left; a removed sample
\* never comes back, whatever window is asked for later.  The samples
\* (t0, 10), (t0 + 5, 20) asked for at t0 + 6 with window 10 give 15.
C22_WindowAverage ==
  [][ /\ applied'.op = "average" =>
           LET cutoff == now - Max(5, applied'.window)
               kept == SelectSeq(temp_buf, LAMBDA smp : smp[1] >= cutoff)
           IN /\ temp_buf' = kept
              /\ IF kept = <<>> THEN applied'.avg = NoneVal
                 ELSE /\ applied'.avg # NoneVal
                      /\ applied'.avg[1].num * Len(kept) = SumVals(kept) * applied'.avg[1].den
      /\ applied'.op # "average" =>
           /\ Len(temp_buf') >= Len(temp_buf)
           /\ SubSeq(temp_buf', 1, Len(temp_buf)) = temp_buf
           /\ \A i \in (Len(temp_buf) + 1)..Len(temp_buf') : temp_buf'[i][1] = now ]_vars

C22_Witness ==
  /\ applied.op = "average"
  /\ applied.window = 10
  /\ now = ClockStart + 6
  /\ temp_buf = <<<<ClockStart, 10>>, <<ClockStart + 5, 20>>>>
  /\ applied.avg = Some(Temp(15, 1))

\* C23: whatever subscribe_temp_entity, unsubscribe and clear calls were
\* made, at most one listener is registered, the one of the latest
\* subscribe_temp_entity with a non-empty reference, and none after
\* unsubscribe, clear or an empty reference; a state change to a missing,
\* empty, "unknown", "unavailable" or non-numeric state appends no sample
\* and creates no apply task, and a numeric reading of the subscribed
\* entity appends exactly one sample and creates exactly one task for
\* apply("state_change").
ValidReading(st) ==
  st # NoneVal /\ st[1] \notin {<<>>, UnknownWord, UnavailableWord} /\ IsFloatText(st[1])

C23_OneSubscription ==
  /\ [](Len(subscribed.listeners) <= 1 /\ (subscribed.handle <=> subscribed.listeners # <<>>))
  /\ [][ /\ applied'.op = "subscribe" =>
              subscribed'.listeners =
                IF applied'.entity = <<>> THEN <<>> ELSE <<applied'.entity>>
         /\ applied'.op \in {"unsubscribe", "clear"} => subscribed'.listeners = <<>>
         /\ applied'.op \notin {"subscribe", "unsubscribe", "clear"} =>
              subscribed'.listeners = subscribed.listeners
         /\ applied'.op = "on_temp" =>
              /\ applied'.trigger = "state_change"
              /\ IF ValidReading(applied'.reading)
                    /\ subscribed.listeners = <<applied'.entity>>
                 THEN /\ temp_buf' = Append(temp_buf, <<now, FloatVal(applied'.reading[1])>>)
                      /\ applied'.tasks = 1
                 ELSE /\ temp_buf' = temp_buf
                      /\ applied'.tasks = 0 ]_vars

\* a subscription replaced by one for another entity hears a reading of it
C23_Witness ==
  /\ applied.op = "on_temp"
  /\ applied.entity = OtherSensor
  /\ applied.tasks = 1
  /\ subscribed.listeners = <<OtherSensor>>
  /\ Len(temp_buf) = 2

\* a placeholder state reaches a live subscription and is ignored
IgnoredReadingReached ==
  /\ applied.op = "on_temp"
  /\ applied.reading = Some(UnknownWord)
  /\ subscribed.listeners = <<applied.entity>>
  /\ applied.tasks = 0

\* the state clear() leaves behind
ClearedState ==
  /\ subscribed'.listeners = <<>>
  /\ ~subscribed'.handle
  /\ temp_buf' = <<>>
  /\ ~state'.active
  /\ state'.temp_avg = NoneVal
  /\ state'.last_target_pwm = NoneVal
  /\ state'.last_applied_pwm = NoneVal
  /\ state'.last_apply_ts = NewState.last_apply_ts

\* C24: clear() removes the subscription, empties the window and resets
\* active, temp_avg, last_target_pwm, last_applied_pwm and last_apply_ts,
\* from any state; so an apply() that computes a target while nothing was
\* written since the clear() is not held back by the deadband.
C24_ClearResets ==
  /\ [][applied'.op = "clear" => ClearedState]_vars
  /\ [][(TargetComputed /\ last_written = NoneVal) => applied'.outcome # "deadband"]_vars

\* clear() alone: its step ends in the cleared state
ClearLeavesInitial == [][applied'.op = "clear" => ClearedState]_vars

ClearWhileInFlight ==
  /\ applied.op = "clear"
  /\ inflight["periodic"] # NoneVal
  /\ inflight["periodic"][1].pc = "refresh"

\* the call of caller c is waiting for the refresh it requested
AwaitsRefresh(fl, c) == fl[c] # NoneVal /\ fl[c][1].pc = "refresh"

\* C25: a caller requests the coordinator refresh only after its own PWM
\* write has succeeded: apply() reaches its refresh request only in the
\* step in which its set_pwm_index call returns without error, with the
\* value stored on the device; the fan entity's set-percentage and turn-off
\* request it iff their write succeeded; a failed write is followed by no
\* refresh request of that caller.
C25_RefreshAfterWrite ==
  [][ /\ \A c \in DOMAIN inflight :
           (AwaitsRefresh(inflight', c) /\ ~AwaitsRefresh(inflight, c)) =>
             /\ applied'.op = "write" /\ applied'.trigger = c
             /\ inflight[c] # NoneVal /\ inflight[c][1].pc = "write"
             /\ ret'.op = "set_pwm_index" /\ ret'.ok
             /\ last_pwm_by_index'[FanIndex] = ClampPercent(inflight[c][1].target)
      /\ (applied'.op = "write" /\ ~ret'.ok) =>
           /\ inflight'[applied'.trigger] = NoneVal
           /\ last_pwm_by_index' = last_pwm_by_index
      /\ applied'.op \in {"set_percentage", "turn_off"} =>
           /\ ret'.op = "set_pwm_index"
           /\ applied'.refresh <=> ret'.ok
           /\ ~ret'.ok => last_pwm_by_index' = last_pwm_by_index ]_vars

\* the fan entity's write fails while the controller waits for its refresh
C25_Witness ==
  /\ applied.op = "set_percentage"
  /\ ~ret.ok
  /\ ~applied.refresh
  /\ AwaitsRefresh(inflight, "periodic")

\* C26: while a calibrate_min run of the fan is between its first PWM write
\* and its end, the temperature controller of that fan issues no PWM write.
C26_CalibrationExclusive ==
  [][(calib.pc # "idle" /\ calib.writes >= 1) => applied'.op # "write"]_vars

\* a calibration step ends the run without a stepped value at the threshold
SweepFails ==
  /\ applied'.op = "calibrate"
  /\ \/ calib.pc = "read" /\ calib'.pc = "idle" /\ applied'.rpm < calib.rpm_threshold
     \/ calib.pc = "idle" /\ applied'.step > 0 /\ applied'.from_pct > applied'.to_pct

\* C27: a calibrate_min sweep that ends without having seen an rpm at or
\* above the threshold leaves the options as they were, min_pwm and
\* min_pwm_calibrated of the fan included, and ends with a warning, not an
\* error; no calibration step but a successful one changes the options.
C27_FailedSweepKeepsOptions ==
  [][ /\ SweepFails => (options' = options /\ applied'.outcome = "warning")
      /\ (applied'.op = "calibrate" /\ applied'.outcome # "calibrated") => options' = options
    ]_vars

\* a full sweep of three values on a calibrated fan ends with the warning
C27_Witness ==
  /\ applied.op = "calibrate"
  /\ applied.outcome = "warning"
  /\ applied.writes = 3
  /\ applied.pct = 20
  /\ applied.rpm = 99
  /\ options = HoldOptions

\* the options differ from before only in min_pwm and min_pwm_calibrated of
\* the fan, which are m and TRUE
StoresMinimum(old, new, m) ==
  LET fans == Get(old, "fans", EmptyDict)
      fo == Get(fans, FanKey, EmptyDict)
  IN /\ DOMAIN new = (DOMAIN old) \cup {"fans"}
     /\ \A k \in (DOMAIN old) \ {"fans"} : new[k] = old[k]
     /\ DOMAIN new.fans = (DOMAIN fans) \cup {FanKey}
     /\ \A k \in (DOMAIN fans) \ {FanKey} : new.fans[k] = fans[k]
     /\ DOMAIN new.fans[FanKey] = (DOMAIN fo) \cup {"min_pwm", "min_pwm_calibrated"}
     /\ \A k \in (DOMAIN fo) \ {"min_pwm", "min_pwm_calibrated"} : new.fans[FanKey][k] = fo[k]
     /\ new.fans[FanKey]["min_pwm"] = m
     /\ new.fans[FanKey]["min_pwm_calibrated"] = TRUE

BuiltInNames == {"quiet", "balanced", "aggressive"}

\* C29: save_profile with a built-in name (quiet, balanced, aggressive) is
\* rejected and leaves the options as they were; so, from options without
\* a custom profile of such a name, after any save_profile and
\* apply_profile calls no custom profile has a built-in name, and a
\* built-in profile selected for the fan resolves to its fixed preset.
C29_BuiltInsNotShadowed ==
  /\ [](DOMAIN Get(options, "profiles", EmptyDict) \cap BuiltInNames = {})
  /\ [][ /\ (applied'.op = "save_profile" /\ applied'.name \in BuiltInNames) =>
              (options' = options /\ applied'.outcome = "rejected")
         /\ (ApplyRuns /\ ProfileName(options') \in BuiltInNames) =>
              LET preset == DEFAULT_PROFILES[ProfileName(options')]
              IN /\ state'.profile = ProfileName(options')
                 /\ state'.temp_curve = preset["temp_curve"]
                 /\ state'.temp_integrate_seconds = preset["temp_integrate_seconds"]
                 /\ state'.temp_update_min_interval = preset["temp_update_min_interval"]
                 /\ state'.temp_deadband_pct = preset["temp_deadband_pct"] ]_vars

\* a custom profile was saved, "quiet" was applied and resolved, and a save
\* under the name "quiet" is rejected
C29_Witness ==
  /\ applied.op = "save_profile"
  /\ applied.outcome = "rejected"
  /\ applied.name = "quiet"
  /\ "night" \in DOMAIN Get(options, "profiles", EmptyDict)
  /\ ProfileName(options) = "quiet"
  /\ state.profile = "quiet"
  /\ state.temp_integrate_seconds = 60

\* C30: the settings an apply() call works with.  With a profile selected
\* for the fan, curve, integration window, minimum interval and deadband
\* are the profile's and a per-fan curve is ignored; without a profile a
\* per-fan curve replaces the global one; per-fan min_pwm,
\* min_pwm_calibrated and temperature entity replace the global values in
\* both cases.
C30_EffectiveSettings ==
  [][ ApplyRuns =>
        LET fo == Get(Get(options', "fans", EmptyDict), FanKey, EmptyDict)
            name == Get(fo, "profile", "")
            custom == Get(options', "profiles", EmptyDict)
            selected == name # "" /\ name \in (DOMAIN custom) \cup (DOMAIN DEFAULT_PROFILES)
            pd == IF name \in DOMAIN custom THEN custom[name] ELSE DEFAULT_PROFILES[name]
        IN /\ selected =>
                /\ state'.profile = name
                /\ state'.temp_curve = pd["temp_curve"]
                /\ state'.temp_integrate_seconds = pd["temp_integrate_seconds"]
                /\ state'.temp_update_min_interval = pd["temp_update_min_interval"]
                /\ state'.temp_deadband_pct = pd["temp_deadband_pct"]
           /\ name = "" =>
                /\ state'.profile = ""
                /\ state'.temp_curve =
                     IF Get(fo, "temp_curve", <<>>) # <<>> THEN fo["temp_curve"]
                     ELSE Strip(Get(options', "temp_curve", <<>>))
           /\ state'.min_pwm =
                IF "min_pwm" \in DOMAIN fo THEN fo["min_pwm"] ELSE Get(options', "min_pwm", 0)
           /\ state'.min_pwm_calibrated =
                IF "min_pwm_calibrated" \in DOMAIN fo THEN fo["min_pwm_calibrated"]
                ELSE Get(options', "min_pwm_calibrated", FALSE)
           /\ state'.temp_entity =
                IF Get(fo, "temp_entity", <<>>) # <<>> THEN Strip(fo["temp_entity"])
                ELSE Strip(Get(options', "temp_entity", <<>>)) ]_vars

\* a custom profile is applied to a fan that has its own curve and minimum
C30_Witness ==
  /\ applied.op = "start"
  /\ applied.trigger = "profile_applied"
  /\ state.profile = "silent"
  /\ Get(FanOptsOf(options), "temp_curve", <<>>) = CurveHold
  /\ state.temp_curve = CurveOff
  /\ state.min_pwm = 40
  /\ Get(options, "min_pwm", 0) = 10
  /\ state.temp_entity = SensorName

\* C31: in every reachable state every entry of the last-known-PWM cache is
\* an integer from 0 to 100, and every published snapshot has rpm >= 0 and
\* pwm from 0 to 100 for each of its fans, whatever rpm and pwm the device
\* answers with and whatever value is passed to set_pwm_index and
\* set_pwm_all.
C31_RangeInvariant ==
  /\ \A i \in DOMAIN last_pwm_by_index : last_pwm_by_index[i] \in 0..100
  /\ data.published =>
       \A i \in DOMAIN data.fans :
         /\ data.fans[i].rpm \in Nat
         /\ data.fans[i].pwm \in 0..100

\* 150 was written to a fan after a poll published the answer with rpm -5
\* for fan 0 and "x" for fan 2
C31_Witness ==
  /\ ret.op = "set_pwm_index" /\ ret.ok /\ ret.arg = 150
  /\ last_pwm_by_index[ret.idx] = 100
  /\ data.published
  /\ DOMAIN data.fans = {0, 2}
  /\ data.fans[0].rpm = 0 /\ data.fans[2].rpm = 0

\* C32: two PWM writes issued by one controller are at least the minimum
\* update interval apart, in every interleaving of its apply() calls: an
\* apply() that starts while the write of another apply() is in flight
\* issues no write unless that write was issued at least the interval ago.
C32_WritesSeparated ==
  [][ (ApplyRuns /\ applied'.outcome = "issued") =>
        \A c \in DOMAIN inflight :
          inflight[c] # NoneVal =>
            now - inflight[c][1].now >= GetFanOptions(options).temp_update_min_interval ]_vars

\* C33: the stall classification of a poll uses an rpm and a last-known PWM
\* of the same instant: while a poll that has received its RPM status is
\* waiting for the LED/12V status, no step (a set_pwm_index that completes in
\* between) changes the stalled-now value the poll computes for any fan of
\* its status.
C33_ClassificationInstant ==
  [][ (poll.pc = "led" /\ poll'.pc = "led") =>
        \A i \in DOMAIN poll.rpm_by_index :
          StalledNow(i, poll.rpm_by_index[i])' = StalledNow(i, poll.rpm_by_index[i]) ]_vars

\* C34: after clear_temp_control the controller stays inactive and issues no
\* write on a later periodic tick, also when a global temperature entity and
\* curve are configured: the periodic apply() that follows the service, with
\* no other service call in between, is gated and leaves the controller
\* inactive.
C34_ClearedStaysInactive ==
  [][ (applied.op = "clear" /\ ApplyRuns) =>
        (applied'.outcome = "gated" /\ ~state'.active) ]_vars

\* the four values clear() resets are as it leaves them
BookkeepingCleared(st) ==
  /\ st.last_applied_pwm = NoneVal
  /\ st.last_target_pwm = NoneVal
  /\ st.temp_avg = NoneVal
  /\ st.last_apply_ts = 0

\* C35: once clear() has returned, last_applied_pwm, last_target_pwm and
\* temp_avg stay none and last_apply_ts stays 0 until an apply() that begins
\* after it sets them: the return of an apply() that was awaiting its write
\* when clear() ran leaves the four values as clear() left them.
C35_InFlightDoesNotRepopulate ==
  [][ (applied.op = "clear" /\ applied'.op \in {"write", "finish"}) =>
        BookkeepingCleared(state') ]_vars

\* temp_avg, last_target_pwm, last_applied_pwm and last_apply_ts
Bookkeeping(st) ==
  <<st.temp_avg, st.last_target_pwm, st.last_applied_pwm, st.last_apply_ts>>

\* C37: a set-PWM callback that fails during apply() leaves temp_avg,
\* last_target_pwm, last_applied_pwm and last_apply_ts at their values from
\* before that apply(): neither the step that issues the write nor the step
\* in which the write fails changes them, and the failed call is no longer
\* in flight; so no minimum-interval period is started and the next apply()
\* that computes a target, the settings being those the failed call
\* recorded, attempts the write again.
C37_FailedWriteLeavesBookkeeping ==
  /\ [][ (ApplyRuns /\ applied'.outcome = "issued") =>
           Bookkeeping(state') = Bookkeeping(state) ]_vars
  /\ [][ (applied'.op = "write" /\ applied'.outcome = "failed") =>
           /\ Bookkeeping(state') = Bookkeeping(state)
           /\ inflight'[applied'.trigger] = NoneVal
           /\ UNCHANGED last_written ]_vars
  /\ [][ (/\ applied.op = "write" /\ applied.outcome = "failed"
          /\ Recorded(state, GetFanOptions(options)) = state
          /\ TargetComputed) =>
           applied'.outcome = "issued" ]_vars

\* a write has failed after an earlier one was recorded, and the values
\* recorded by the earlier one are still there
C37_Witness ==
  /\ applied.op = "write"
  /\ applied.outcome = "failed"
  /\ state.last_applied_pwm # NoneVal
  /\ state.last_apply_ts > 0
  /\ inflight["periodic"] = NoneVal

\* the stall counter and the already-notified flag of fan i, with whether
\* the coordinator holds an entry for it
StallEntry(counts, flags, i) ==
  <<i \in DOMAIN counts, Get(counts, i, 0), i \in DOMAIN flags, Get(flags, i, FALSE)>>

\* this step is the return of a poll whose status response contains index i
PollClassifies(i) ==
  /\ poll.pc = "led"
  /\ ret'.op = "poll"
  /\ ret'.ok
  /\ i \in DOMAIN poll.rpm_by_index

\* C38: the stall counter and the already-notified flag of fan i change only
\* in a successful poll whose status response contains index i: every other
\* step leaves them as they are, a failed poll leaves those of every fan
\* unchanged and fires no stall event, and a successful poll leaves those of
\* the fans its status omits unchanged.
C38_StallFrame ==
  /\ [][ \A i \in 0..9 :
           StallEntry(stall_by_index', notified_by_index', i)
               # StallEntry(stall_by_index, notified_by_index, i)
             => PollClassifies(i) ]_vars
  /\ [][ (ret'.op = "poll" /\ ~ret'.ok) =>
           (UNCHANGED <<stall_by_index, notified_by_index>> /\ fired' = {}) ]_vars
  /\ [][ fired' \subseteq {i \in 0..9 : PollClassifies(i)} ]_vars

\* a successful poll whose status omits fan 1 has returned while fan 1 is
\* counted as stalled and notified
C38_Witness ==
  /\ ret.op = "poll"
  /\ ret.ok
  /\ data.published
  /\ 1 \notin DOMAIN data.fans
  /\ Get(stall_by_index, 1, 0) >= 1
  /\ Get(notified_by_index, 1, FALSE)

\* a poll has failed while fan 1 is counted as stalled
FailedPollKeepsCount ==
  /\ ret.op = "poll"
  /\ ~ret.ok
  /\ Get(stall_by_index, 1, 0) >= 1

\* C36: in each run of the periodic callback the controller of every fan
\* gets its apply() invoked, also when the PWM write of one fan fails on all
\* endpoints: a run that ends has invoked apply() of every controller.
C36_EveryControllerApplied ==
  [][ (tick.pc # "idle" /\ tick'.pc = "idle") => tick'.invoked = TickControllers ]_vars

\* the clock can still advance by the minimum interval after the latest
\* recorded write and after the start of every call in flight
ClockEnd == ClockStart + MaxTicks * TickSeconds
IntervalFits ==
  /\ state.last_apply_ts + state.temp_update_min_interval <= ClockEnd
  /\ \A c \in DOMAIN inflight :
       inflight[c] # NoneVal => inflight[c][1].now + state.temp_update_min_interval <= ClockEnd

\* an apply() has just held its target back because of the minimum interval
HeldByInterval == applied.op = "start" /\ applied.outcome = "interval"

\* an apply() has just issued a write, or found the gate closed, no sample,
\* or its target within the deadband
NotHeldByInterval ==
  applied.op = "start" /\ applied.outcome \in {"issued", "deadband", "gated", "no_temp"}

\* C39: while the gate holds, a sample is available, writes succeed and the
\* target stays outside the deadband, repeated apply() calls with advancing
\* time eventually issue the write: an apply() held back by the minimum
\* interval is followed, once the interval has passed, by an apply() that
\* issues its write (or that finds the gate closed, no sample or a target
\* within the deadband).
C39_EventuallyWritten == (HeldByInterval /\ IntervalFits) ~> NotHeldByInterval

\* an apply() was held back at the start of the clock, after a recorded write
C39_Witness ==
  /\ HeldByInterval
  /\ IntervalFits
  /\ state.last_applied_pwm # NoneVal
  /\ state.last_target_pwm # NoneVal
  /\ Abs(state.last_target_pwm[1] - state.last_applied_pwm[1]) >= state.temp_deadband_pct

\* the last-known PWM of the controller's fan is within the deadband of the
\* value the controller applied last
NearApplied ==
  /\ state.last_applied_pwm # NoneVal
  /\ Abs(CachedPwm(FanIndex) - state.last_applied_pwm[1]) <= Max(0, state.temp_deadband_pct)

\* the periodic apply() has just run on an active controller whose fan was
\* set by hand to a value outside the deadband of the applied target
AppliedWhileAway ==
  /\ applied.op = "start"
  /\ applied.trigger = "periodic"
  /\ state.active
  /\ state.last_applied_pwm # NoneVal
  /\ ~NearApplied
  /\ IntervalFits

\* the fan entity has just written again
ManualWritten == applied.op \in {"set_percentage", "turn_off"}

\* C40: with the controller active and the temperature steady, after a
\* manual write through the fan entity the periodic apply() calls
\* eventually write again, so that the last-known PWM of the fan returns to
\* within the deadband of the target (unless the user writes once more).
C40_ManualValueReplaced == AppliedWhileAway ~> (NearApplied \/ ManualWritten)

====
